---- MODULE Spec2Model ----
(***************************************************************************)
(* GomokuNoGrid: the Game class (move legality, line groups, win           *)
(* detection, clone), the EasyAI and the MediumAI (candidates, evaluation, *)
(* the alpha-beta search, taken pass by pass), the page's click and key    *)
(* handlers with the debug drawer, and the training worker, as a state     *)
(* machine.                                                                *)
(*                                                                         *)
(* Numbers.  Stone coordinates are the program's scaled integers           *)
(* (world * SCALE).  A world coordinate handed to addMove / isValidMove is *)
(* a real number; here it is an integer count of 1/SUB scaled units, so    *)
(* that Math.round has something to round.  Distances are compared through *)
(* their exact squares, kept as two limbs <<hi, lo>> of base LIMB, since   *)
(* (WIN_SEARCH_RADIUS * SCALE)^2 does not fit a machine integer.  A unit   *)
(* direction (ux, uy) is kept as the primitive integer vector dir it is    *)
(* parallel to, and a projection t along it as the integer t * |dir|, in   *)
(* the same two limbs with a signed high limb; the comparisons with        *)
(* PERPENDICULAR_TOLERANCE and WIN_D_MAX are made between exact squares.   *)
(* Real arithmetic is exact: floating-point rounding is not modelled.      *)
(***************************************************************************)
EXTENDS Integers, Sequences, FiniteSets, TLC

VARIABLES
    objects,        \* the Game objects alive, by reference: reference -> fields
    game,           \* index.ts: the reference held by `game`
    copy,           \* the reference a clone() call returned, 0 before any
    currentPlayer,  \* index.ts: the player to move
    last,           \* the last call: what it was, on which object, its result
    aiMove,         \* the position the last getMove returned, NULL before any
    calls,          \* the number of calls made so far
    aiThinking,     \* index.ts: an AI turn is in progress
    handler,        \* the click handler's pending AI turn: where it waits, its locals
    debugDrawer,    \* the DebugDrawer object: its fields
    worker,         \* the training worker: its run and the messages it posted
    search          \* the getMove call of a MediumAI in progress: its locals, its minimax calls

vars == <<objects, game, copy, currentPlayer, last, aiMove, calls,
          aiThinking, handler, debugDrawer, worker, search>>

\* the page around the game and the training worker
page == <<aiThinking, handler, debugDrawer, worker>>

\* what the calls on a Game alone leave untouched
shell == <<page, search>>

(* ---------------------------- consts.ts -------------------------------- *)
SYMBOL_RADIUS == 10
SCALE == 1000
MAX_PLACEMENT_DISTANCE == 6 * SYMBOL_RADIUS
\* 0.4 * SYMBOL_RADIUS * SCALE
PERPENDICULAR_TOLERANCE == (4 * SYMBOL_RADIUS * SCALE) \div 10
\* Math.round(3.5 * SYMBOL_RADIUS * SCALE)
WIN_D_MAX == (35 * SYMBOL_RADIUS * SCALE + 5) \div 10
WIN_SEARCH_RADIUS == 5 * WIN_D_MAX
\* WIN_ANGLE_STEP = Math.PI / ANGLE_STEPS: the number of buckets in a half turn
ANGLE_STEPS == 32
IDEAL_SPACING == 25
LINE_GROUP_SEARCH_RADIUS == 200
\* tree.nearest(point, 50, LINE_GROUP_SEARCH_RADIUS)
LINE_GROUP_NEIGHBOURS == 50

(* --------------------------- representation ---------------------------- *)
\* sub-steps of one scaled unit in which a world coordinate is given
SUB == 10
\* base of the two-limb squares
LIMB == 10000 * 10000
HALF_LIMB == 10000

NULL == [null |-> TRUE]

Abs(n) == IF n < 0 THEN -n ELSE n

BigAdd(u, v) == <<u[1] + v[1] + (u[2] + v[2]) \div LIMB, (u[2] + v[2]) % LIMB>>

BigLess(u, v) == u[1] < v[1] \/ (u[1] = v[1] /\ u[2] < v[2])

BigLeq(u, v) == ~BigLess(v, u)

\* hi * LIMB + mid * HALF_LIMB + lo as <<hi, lo>>
Carry(hi, mid, lo) ==
    <<hi + mid \div HALF_LIMB + ((mid % HALF_LIMB) * HALF_LIMB + lo) \div LIMB,
      ((mid % HALF_LIMB) * HALF_LIMB + lo) % LIMB>>

\* x * y as <<hi, lo>>, hi * LIMB + lo, for 0 <= x, y < 4 * LIMB
BigMul(x, y) ==
    Carry((x \div HALF_LIMB) * (y \div HALF_LIMB),
          (x \div HALF_LIMB) * (y % HALF_LIMB) + (x % HALF_LIMB) * (y \div HALF_LIMB),
          (x % HALF_LIMB) * (y % HALF_LIMB))

\* n * n as <<hi, lo>>
Sq(d) == BigMul(Abs(d), Abs(d))

\* signed numbers in the same two limbs: hi * LIMB + lo with 0 <= lo < LIMB
\* and hi of either sign; BigAdd and BigLess hold for them as they stand
Wide(n) == <<n \div LIMB, n % LIMB>>

WideNeg(u) == IF u[2] = 0 THEN <<-u[1], 0>> ELSE <<-u[1] - 1, LIMB - u[2]>>

WideAbs(u) == IF u[1] < 0 THEN WideNeg(u) ELSE u

WideSub(u, v) == BigAdd(u, WideNeg(v))

\* x * y for integers of either sign, |x|, |y| < LIMB
Signed(negative, u) == IF negative THEN WideNeg(u) ELSE u

WideMul(x, y) == Signed((x < 0) # (y < 0), BigMul(Abs(x), Abs(y)))

\* u * v as three limbs <<l2, l1, l0>> for u, v >= 0 with hi limbs < HALF_LIMB
TriSum(hh, p0, p1, q1) ==
    <<hh + p1[1] + q1[1] + (p0[1] + p1[2] + q1[2]) \div LIMB,
      (p0[1] + p1[2] + q1[2]) % LIMB, p0[2]>>

TriMul(u, v) ==
    TriSum(u[1] * v[1], BigMul(u[2], v[2]), BigMul(u[1], v[2]), BigMul(u[2], v[1]))

TriLeq(u, v) ==
    \/ u[1] < v[1]
    \/ u[1] = v[1] /\ u[2] < v[2]
    \/ u[1] = v[1] /\ u[2] = v[2] /\ u[3] <= v[3]

\* a distance given in world units, as the square of its scaled length
WorldDist(r) == Sq(r * SCALE)

\* function distance(a, b): sqrt(dx^2 + dy^2) / SCALE, kept as dx^2 + dy^2
distance(a, b) == BigAdd(Sq(a.x - b.x), Sq(a.y - b.y))

\* Math.round(x * SCALE) of a world coordinate given in 1/SUB scaled units:
\* floor(v + 1/2), halves towards +infinity
Quantize(w) == (2 * w + SUB) \div (2 * SUB)

\* point.x / SCALE: the world coordinate of a stored scaled coordinate, in
\* 1/SUB scaled units like every world coordinate
ToWorld(s) == s * SUB

(* --------------------- kd-tree-javascript: BinaryHeap ------------------ *)
\* heap entries are [node, dist]; scoreFunction(e) = -e[1]
ScoreLess(e, f) == BigLess(f.dist, e.dist)

SwapAt(c, i, j) == [c EXCEPT ![i] = c[j], ![j] = c[i]]

RECURSIVE BubbleUp(_, _)
BubbleUp(c, i) ==
    IF i > 1 /\ ScoreLess(c[i], c[i \div 2])
    THEN BubbleUp(SwapAt(c, i, i \div 2), i \div 2)
    ELSE c

\* sinkDown: child when it exists and scores below the element at swap
Smaller(c, swap, child) ==
    IF child <= Len(c) /\ ScoreLess(c[child], c[swap]) THEN child ELSE swap

RECURSIVE SinkDown(_, _)
SinkTo(c, i, swap) == IF swap = i THEN c ELSE SinkDown(SwapAt(c, i, swap), swap)

SinkDown(c, i) == SinkTo(c, i, Smaller(c, Smaller(c, i, 2 * i), 2 * i + 1))

HeapPush(c, e) == BubbleUp(Append(c, e), Len(c) + 1)

HeapPop(c) ==
    IF Len(c) = 1 THEN <<>>
    ELSE SinkDown([SubSeq(c, 1, Len(c) - 1) EXCEPT ![1] = c[Len(c)]], 1)

(* ----------------------- kd-tree-javascript: kdTree -------------------- *)
\* a tree is the sequence of its nodes in insertion order; node 1 is the
\* root, 0 is null; dimensions = ["x", "y"]
Coord(p, dim) == IF dim = 0 THEN p.x ELSE p.y

EmptyTree == <<>>

RECURSIVE InnerSearch(_, _, _, _)
InnerSearch(tree, node, parent, point) ==
    IF node = 0 THEN parent
    ELSE IF Coord(point, tree[node].dimension) < Coord(tree[node].obj, tree[node].dimension)
         THEN InnerSearch(tree, tree[node].left, node, point)
         ELSE InnerSearch(tree, tree[node].right, node, point)

\* insert: the new node under insertPosition, 0 for an empty tree
InsertUnder(tree, point, insertPosition) ==
    IF insertPosition = 0
    THEN <<[obj |-> point, dimension |-> 0, left |-> 0, right |-> 0]>>
    ELSE Append(IF Coord(point, tree[insertPosition].dimension)
                     < Coord(tree[insertPosition].obj, tree[insertPosition].dimension)
                THEN [tree EXCEPT ![insertPosition].left = Len(tree) + 1]
                ELSE [tree EXCEPT ![insertPosition].right = Len(tree) + 1],
                [obj |-> point, dimension |-> (tree[insertPosition].dimension + 1) % 2,
                 left |-> 0, right |-> 0])

TreeInsert(tree, point) ==
    InsertUnder(tree, point, InnerSearch(tree, IF Len(tree) = 0 THEN 0 ELSE 1, 0, point))

Trimmed(best, maxNodes) == IF Len(best) > maxNodes THEN HeapPop(best) ELSE best

SaveNode(best, node, dist, maxNodes) ==
    Trimmed(HeapPush(best, [node |-> node, dist |-> dist]), maxNodes)

Closer(best, dist, maxNodes) == Len(best) < maxNodes \/ BigLess(dist, best[1].dist)

\* if (size < maxNodes || ownDistance < peek()[1]) saveNode(node, ownDistance)
SaveIfCloser(best, node, dist, maxNodes) ==
    IF Closer(best, dist, maxNodes) THEN SaveNode(best, node, dist, maxNodes) ELSE best

RECURSIVE NearestSearch(_, _, _, _, _)

\* nearestSearch: the other child is searched when the splitting line is
\* closer than the worst saved node (or the heap is not full yet)
SearchOther(tree, otherChild, point, maxNodes, linear, best) ==
    IF Closer(best, linear, maxNodes) /\ otherChild # 0
    THEN NearestSearch(tree, otherChild, point, maxNodes, best)
    ELSE best

\* nearestSearch: the child on the query's side of the splitting line
BestChild(nd, point) ==
    IF nd.right = 0 THEN nd.left
    ELSE IF nd.left = 0 THEN nd.right
    ELSE IF Coord(point, nd.dimension) < Coord(nd.obj, nd.dimension)
         THEN nd.left ELSE nd.right

\* nearestSearch on an inner node: best child, the node itself, other child
SearchInner(tree, node, point, maxNodes, best, bestChild) ==
    SearchOther(tree,
                IF bestChild = tree[node].left THEN tree[node].right ELSE tree[node].left,
                point, maxNodes,
                Sq(Coord(point, tree[node].dimension)
                     - Coord(tree[node].obj, tree[node].dimension)),
                SaveIfCloser(NearestSearch(tree, bestChild, point, maxNodes, best),
                             node, distance(point, tree[node].obj), maxNodes))

NearestSearch(tree, node, point, maxNodes, best) ==
    IF tree[node].left = 0 /\ tree[node].right = 0
    THEN SaveIfCloser(best, node, distance(point, tree[node].obj), maxNodes)
    ELSE SearchInner(tree, node, point, maxNodes, best, BestChild(tree[node], point))

\* the heap a search starts from: maxNodes entries [null, maxDistance] when a
\* maximum distance is given (maxDistance = 0 stands for "not given")
Prefill(maxNodes, maxDistance) ==
    IF maxDistance = 0 THEN <<>>
    ELSE [i \in 1..maxNodes |-> [node |-> 0, dist |-> WorldDist(maxDistance)]]

RECURSIVE Collect(_, _, _)
Collect(tree, content, i) ==
    IF i > Len(content) THEN <<>>
    ELSE (IF content[i].node # 0
          THEN <<[obj |-> tree[content[i].node].obj, dist |-> content[i].dist]>>
          ELSE <<>>) \o Collect(tree, content, i + 1)

\* tree.nearest(point, maxNodes, maxDistance): [obj, dist] pairs in the order
\* of the heap's content array
SearchFrom(tree, point, maxNodes, start) ==
    IF Len(tree) = 0 THEN start ELSE NearestSearch(tree, 1, point, maxNodes, start)

Content(tree, best, maxNodes) ==
    Collect(tree, SubSeq(best, 1, IF maxNodes < Len(best) THEN maxNodes ELSE Len(best)), 1)

Nearest(tree, point, maxNodes, maxDistance) ==
    Content(tree, SearchFrom(tree, point, maxNodes, Prefill(maxNodes, maxDistance)),
            maxNodes)

(* ------------------------------ geometry ------------------------------- *)
RECURSIVE Gcd(_, _)
Gcd(a, b) == IF b = 0 THEN a ELSE Gcd(b, a % b)

\* the primitive integer vector parallel to (dx, dy), dx and dy scaled
Primitive(dx, dy) ==
    LET g == Gcd(Abs(dx), Abs(dy))
    IN  <<dx \div g, dy \div g>>

\* |d|^2 of a direction vector, in two limbs
Norm2(d) == BigAdd(Sq(d[1]), Sq(d[2]))

\* a direction whose products with a tangent bound fit a machine integer
SmallDir(d) == Abs(d[1]) < SCALE /\ Abs(d[2]) < SCALE

\* tan((k + 1/2) * WIN_ANGLE_STEP) * TAN_SCALE for k = 0 .. ANGLE_STEPS/2 - 1:
\* the directions at which Math.round(angle / WIN_ANGLE_STEP) changes
TAN_SCALE == 100000
BucketTan == <<4913, 14834, 25049, 35781, 47296, 59938, 74165, 90635, 110333,
               134834, 166840, 211432, 279481, 399222, 674145, 2035547>>

\* Math.round(Math.atan2(uy, ux) / WIN_ANGLE_STEP) for the direction d
AngleBucket(d) ==
    LET q == Cardinality({k \in 1..(ANGLE_STEPS \div 2) :
                IF SmallDir(d)
                THEN Abs(d[2]) * TAN_SCALE >= Abs(d[1]) * BucketTan[k]
                ELSE BigLeq(BigMul(Abs(d[1]), BucketTan[k]),
                            BigMul(Abs(d[2]), TAN_SCALE))})
    IN  IF d[1] >= 0 THEN (IF d[2] >= 0 THEN q ELSE -q)
        ELSE (IF d[2] >= 0 THEN ANGLE_STEPS - q ELSE -(ANGLE_STEPS - q))

\* vx * uy - vy * ux, times |dir|
Cross(from, to, dir) ==
    WideSub(WideMul(to.x - from.x, dir[2]), WideMul(to.y - from.y, dir[1]))

\* tx * ux + ty * uy, times |dir|
Dot(from, to, dir) ==
    BigAdd(WideMul(to.x - from.x, dir[1]), WideMul(to.y - from.y, dir[2]))

\* perp <= PERPENDICULAR_TOLERANCE, as perp^2 |dir|^2 <= tolerance^2 |dir|^2
CrossWithin(c, dir) ==
    /\ c[1] < HALF_LIMB
    /\ TriLeq(TriMul(c, c), TriMul(Sq(PERPENDICULAR_TOLERANCE), Norm2(dir)))

PerpWithin(from, to, dir) == CrossWithin(WideAbs(Cross(from, to, dir)), dir)

\* delta <= WIN_D_MAX for the difference delta of two projections
GapWithin(delta, dir) ==
    \/ delta[1] < 0
    \/ /\ delta[1] < HALF_LIMB
       /\ TriLeq(TriMul(delta, delta), TriMul(Sq(WIN_D_MAX), Norm2(dir)))

\* Array.prototype.sort((a, b) => a.key - b.key) of records with a numeric
\* field key (insertion sort, stable)
RECURSIVE InsertSorted(_, _)
InsertSorted(s, e) ==
    IF s = <<>> THEN <<e>>
    ELSE IF BigLess(e.key, s[Len(s)].key)
         THEN Append(InsertSorted(SubSeq(s, 1, Len(s) - 1), e), s[Len(s)])
         ELSE Append(s, e)

RECURSIVE SortByKey(_)
SortByKey(s) ==
    IF s = <<>> THEN <<>>
    ELSE InsertSorted(SortByKey(SubSeq(s, 1, Len(s) - 1)), s[Len(s)])

\* the points of s with their projection from origin along dir, sorted by it
Projected(s, origin, dir) ==
    SortByKey([k \in 1..Len(s) |-> [point |-> s[k], key |-> Dot(origin, s[k], dir)]])

Range(s) == {s[i] : i \in 1..Len(s)}

(* ------------------------------- Game ---------------------------------- *)
ONGOING == "ONGOING"
WIN_0 == "WIN_0"
WIN_1 == "WIN_1"

\* new Game()
NewGame ==
    [points |-> <<>>, state |-> ONGOING, winPoints |-> <<>>,
     lineGroups0 |-> <<>>, lineGroups1 |-> <<>>,
     tree0 |-> EmptyTree, tree1 |-> EmptyTree]

TreeOf(g, player) == IF player = 0 THEN g.tree0 ELSE g.tree1

getPoints(g) == g.points
getState(g) == g.state
getWinPoints(g) == g.winPoints
getPlayerPoints(g, player) == SelectSeq(g.points, LAMBDA p : p.player = player)
getLineGroups(g, player) == IF player = 0 THEN g.lineGroups0 ELSE g.lineGroups1

SamePlace(a, b) == a.x = b.x /\ a.y = b.y

(* the spacing scan declaring a win one stone early                         *)
RECURSIVE SpacingScanFour(_, _, _, _)
SpacingScanFour(projections, dir, i, consecutiveCount) ==
    IF i > Len(projections) - 1 THEN FALSE
    ELSE IF GapWithin(WideSub(projections[i + 1], projections[i]), dir)
         THEN (consecutiveCount + 1 >= 4
               \/ SpacingScanFour(projections, dir, i + 1, consecutiveCount + 1))
         ELSE SpacingScanFour(projections, dir, i + 1, 1)

(* checkWin: the spacing scan over the sorted projections; TRUE when        *)
(* consecutiveCount reaches 5                                               *)
RECURSIVE SpacingScan(_, _, _, _)
SpacingScan(projections, dir, i, consecutiveCount) ==
    IF i > Len(projections) - 1 THEN FALSE
    ELSE IF GapWithin(WideSub(projections[i + 1], projections[i]), dir)
         THEN (consecutiveCount + 1 >= 5
               \/ SpacingScan(projections, dir, i + 1, consecutiveCount + 1))
         ELSE SpacingScan(projections, dir, i + 1, 1)

\* checkWin: the loop over the candidate directions, from nearby[i] on;
\* tested lists the directions that passed the testedAngles filter
RECURSIVE CheckDirections(_, _, _, _)

\* checkWin: the points aligned with point along dir, sorted by projection
SortedAligned(nearby, point, dir) ==
    Projected(<<point>> \o SelectSeq([k \in 1..Len(nearby) |-> nearby[k].obj],
                                     LAMBDA c : PerpWithin(point, c, dir)),
              point, dir)

\* checkWin: one direction that passed the testedAngles filter, sorted being
\* its aligned points
TestLine(nearby, point, i, testedAngles, dir, sorted) ==
    IF Len(sorted) >= 5
       /\ SpacingScan([k \in 1..Len(sorted) |-> sorted[k].key], dir, 1, 1)
    THEN [win |-> TRUE,
          winPoints |-> <<sorted[1].point, sorted[Len(sorted)].point>>,
          tested |-> <<dir>>]
    ELSE [CheckDirections(nearby, point, i + 1, testedAngles)
            EXCEPT !.tested = <<dir>> \o @]

\* checkWin: the direction towards nearby[i], in the bucket angleKey
TestDirection(nearby, point, i, testedAngles, dir, angleKey) ==
    IF angleKey \in testedAngles
    THEN CheckDirections(nearby, point, i + 1, testedAngles)
    ELSE TestLine(nearby, point, i, testedAngles \cup {angleKey}, dir,
                  SortedAligned(nearby, point, dir))

CheckDirections(nearby, point, i, testedAngles) ==
    IF i > Len(nearby) THEN [win |-> FALSE, winPoints |-> <<>>, tested |-> <<>>]
    \* length <= EPSILON only when the two stones are at the same place
    ELSE IF SamePlace(nearby[i].obj, point)
    THEN CheckDirections(nearby, point, i + 1, testedAngles)
    ELSE TestDirection(nearby, point, i, testedAngles,
             Primitive(nearby[i].obj.x - point.x, nearby[i].obj.y - point.y),
             AngleBucket(Primitive(nearby[i].obj.x - point.x, nearby[i].obj.y - point.y)))

\* checkWin: tree.nearest(point, this.points.length, WIN_SEARCH_RADIUS) without
\* point itself; the tree measures with distance(), in world units
WinNearby(g, point) ==
    SelectSeq(Nearest(TreeOf(g, point.player), point, Len(g.points), WIN_SEARCH_RADIUS),
              LAMBDA p : ~SamePlace(p.obj, point))

\* checkWin(point) on a game that already holds point; the result and the
\* winPoints it leaves
KeepWinPoints(g, r) == IF r.win THEN r ELSE [r EXCEPT !.winPoints = g.winPoints]

WinAmong(g, point, nearby) ==
    IF Len(nearby) < 4
    THEN [win |-> FALSE, winPoints |-> g.winPoints, tested |-> <<>>]
    ELSE KeepWinPoints(g, CheckDirections(nearby, point, 1, {}))

checkWin(g, point) == WinAmong(g, point, WinNearby(g, point))

(* updateLineGroups: the runs of one line, from the sorted projections      *)
AddToSet(s, e) == IF e \in Range(s) THEN s ELSE Append(s, e)

RECURSIVE GroupsToCreate(_, _, _, _, _)
GroupsToCreate(projections, dir, i, potentialGroup, acc) ==
    IF i > Len(projections) - 1
    THEN IF Len(potentialGroup) >= 2 THEN Append(acc, potentialGroup) ELSE acc
    ELSE IF GapWithin(WideSub(projections[i + 1].key, projections[i].key), dir)
         THEN GroupsToCreate(projections, dir, i + 1,
                  AddToSet(AddToSet(potentialGroup, projections[i].point),
                           projections[i + 1].point), acc)
         ELSE LET pg == AddToSet(potentialGroup, projections[i].point)
              IN  GroupsToCreate(projections, dir, i + 1, <<>>,
                                 IF Len(pg) >= 2 THEN Append(acc, pg) ELSE acc)

\* canonicalize direction to [0, pi): angle < 0, or angle >= pi, turns it round
Canonical(d) ==
    IF d[2] < 0 \/ (d[2] = 0 /\ d[1] < 0) THEN <<-d[1], -d[2]>> ELSE d

\* a group whose projections are measured from its last stone
MakeGroupFromLast(groupPoints, dir) ==
    [dir |-> dir,
     angleBucket |-> AngleBucket(dir),
     originX |-> groupPoints[Len(groupPoints)].x,
     originY |-> groupPoints[Len(groupPoints)].y,
     projections |-> [k \in 1..Len(groupPoints) |->
                         Projected(groupPoints, groupPoints[Len(groupPoints)], dir)[k].key],
     stones |-> Range(groupPoints)]

\* updateLineGroups: the LineGroup of one run, re-based to its first point
MakeGroup(groupPoints, dir) ==
    LET rebased == Projected(groupPoints, groupPoints[1], dir)
    IN  [dir |-> dir,
         angleBucket |-> AngleBucket(dir),
         originX |-> groupPoints[1].x,
         originY |-> groupPoints[1].y,
         projections |-> [k \in 1..Len(rebased) |-> rebased[k].key],
         stones |-> Range(groupPoints)]

\* updateLineGroups: the groups one neighbour of point adds
MakeGroups(toCreate, dir) == [k \in 1..Len(toCreate) |-> MakeGroup(toCreate[k], dir)]

\* updateLineGroups: the runs among the points collinear with point and
\* neighbor along dir
GroupsAlong(nearby, point, neighbor, dir) ==
    MakeGroups(
        GroupsToCreate(
            Projected(<<point, neighbor>> \o
                          SelectSeq([k \in 1..Len(nearby) |-> nearby[k].obj],
                                    LAMBDA c : c # neighbor /\ PerpWithin(point, c, dir)),
                      point, dir),
            dir, 1, <<>>, <<>>),
        dir)

GroupsOfNeighbour(nearby, point, neighbor) ==
    GroupsAlong(nearby, point, neighbor,
                Canonical(Primitive(neighbor.x - point.x, neighbor.y - point.y)))

\* updateLineGroups: the loop over the neighbours of point, from nearby[j] on
RECURSIVE NeighbourLoop(_, _, _, _)
NeighbourLoop(nearby, point, j, groups) ==
    IF j > Len(nearby) THEN groups
    ELSE LET neighbor == nearby[j].obj
         IN  IF SamePlace(neighbor, point)
                \/ BigLess(Sq(WIN_D_MAX), distance(point, neighbor))
             THEN NeighbourLoop(nearby, point, j + 1, groups)
             ELSE NeighbourLoop(nearby, point, j + 1,
                                groups \o GroupsOfNeighbour(nearby, point, neighbor))

\* updateLineGroups: the loop over the player's points, from points[i] on
RECURSIVE PointLoop(_, _, _, _)
PointLoop(tree, points, i, groups) ==
    IF i > Len(points) THEN groups
    ELSE LET point == points[i]
             nearby == SelectSeq(
                 Nearest(tree, point, LINE_GROUP_NEIGHBOURS, LINE_GROUP_SEARCH_RADIUS),
                 LAMBDA p : p.obj # point
                            /\ ~\E k \in 1..Len(groups) :
                                   point \in groups[k].stones /\ p.obj \in groups[k].stones)
         IN  PointLoop(tree, points, i + 1, NeighbourLoop(nearby, point, 1, groups))

\* updateLineGroups(player): the player's groups, rebuilt from scratch
WithGroups(g, player, groups) ==
    IF player = 0 THEN [g EXCEPT !.lineGroups0 = groups]
    ELSE [g EXCEPT !.lineGroups1 = groups]

updateLineGroups(g, player) ==
    WithGroups(g, player,
               PointLoop(TreeOf(g, player), getPlayerPoints(g, player), 1, <<>>))

LOG_ENDED == "Move rejected: game already ended"
LOG_CLOSE == "Move rejected: too close to existing move"
LOG_FAR == "Move rejected: too far from existing moves"
LOG_NONE == "none"

\* Math.min of the distances of a non-empty list of [obj, dist] pairs
RECURSIVE MinDist(_)
MinDist(nearest) ==
    IF Len(nearest) = 1 THEN nearest[1].dist
    ELSE LET m == MinDist(Tail(nearest))
         IN  IF BigLess(m, nearest[1].dist) THEN m ELSE nearest[1].dist

\* a lookup in the mover's own index only
NearestOfOwn(g, point) == Nearest(TreeOf(g, point.player), point, 1, 0)

\* [this.tree0.nearest(point, 1), this.tree1.nearest(point, 1)].flat()
NearestOfBoth(g, point) ==
    Nearest(g.tree0, point, 1, 0) \o Nearest(g.tree1, point, 1, 0)

\* addMove: the accepted point enters its player's index and the point list
Inserted(g, point) ==
    IF point.player = 0
    THEN [g EXCEPT !.tree0 = TreeInsert(g.tree0, point),
                   !.points = Append(g.points, point)]
    ELSE [g EXCEPT !.tree1 = TreeInsert(g.tree1, point),
                   !.points = Append(g.points, point)]

\* the winning pair recorded last stone first
DecidedReversed(g, point, w) ==
    [g EXCEPT !.winPoints = IF w.win THEN <<w.winPoints[2], w.winPoints[1]>>
                            ELSE w.winPoints,
              !.state = IF w.win THEN (IF point.player = 0 THEN WIN_0 ELSE WIN_1)
                        ELSE g.state]

\* a win credited to the opponent of the player who moved
DecidedOther(g, point, w) ==
    [g EXCEPT !.winPoints = w.winPoints,
              !.state = IF w.win THEN (IF point.player = 0 THEN WIN_1 ELSE WIN_0)
                        ELSE g.state]

\* a win recording only the first stone of the winning line
DecidedFirstOnly(g, point, w) ==
    [g EXCEPT !.winPoints = IF w.win THEN <<w.winPoints[1]>> ELSE w.winPoints,
              !.state = IF w.win THEN (IF point.player = 0 THEN WIN_0 ELSE WIN_1)
                        ELSE g.state]

\* addMove: the state and winning pair after checkWin(point) answered w
Decided(g, point, w) ==
    [g EXCEPT !.winPoints = w.winPoints,
              !.state = IF w.win THEN (IF point.player = 0 THEN WIN_0 ELSE WIN_1)
                        ELSE g.state]

\* addMove: the win check on a game whose groups are up to date
Checked(g, point) == Decided(g, point, checkWin(g, point))

\* addMove: what accepting the point does
Accepted(g, point) ==
    Checked(updateLineGroups(Inserted(g, point), point.player), point)

\* the rules with one message for both rejections
RejectionOneMessage(nearest) ==
    IF \E k \in 1..Len(nearest) : BigLess(nearest[k].dist, WorldDist(SYMBOL_RADIUS * 2))
    THEN LOG_CLOSE
    ELSE IF Len(nearest) > 0
            /\ BigLess(WorldDist(MAX_PLACEMENT_DISTANCE), MinDist(nearest))
         THEN LOG_CLOSE
         ELSE LOG_NONE

\* addMove: the rejection logged for the rounded point given the nearest
\* stone of each index, LOG_NONE when the point is accepted
Rejection(nearest) ==
    IF \E k \in 1..Len(nearest) : BigLess(nearest[k].dist, WorldDist(SYMBOL_RADIUS * 2))
    THEN LOG_CLOSE
    ELSE IF Len(nearest) > 0
            /\ BigLess(WorldDist(MAX_PLACEMENT_DISTANCE), MinDist(nearest))
         THEN LOG_FAR
         ELSE LOG_NONE

\* addMove with rule 2 checked after the point was stored
AddPointThenRule2(g, point, log) ==
    IF log = LOG_CLOSE THEN [game |-> g, ret |-> NULL, log |-> log]
    ELSE IF log = LOG_FAR THEN [game |-> Inserted(g, point), ret |-> NULL, log |-> log]
    ELSE [game |-> Accepted(g, point), ret |-> point, log |-> LOG_NONE]

\* addMove on an ongoing game, for the rounded point
AddPoint(g, point, log) ==
    IF log # LOG_NONE THEN [game |-> g, ret |-> NULL, log |-> log]
    ELSE [game |-> Accepted(g, point), ret |-> point, log |-> LOG_NONE]

\* addMove without rule 2
AddRoundedRule1Only(g, point) ==
    AddPoint(g, point, IF Rejection(NearestOfBoth(g, point)) = LOG_CLOSE
                       THEN LOG_CLOSE ELSE LOG_NONE)

\* addMove on an ongoing game, from rule 1 on
AddRounded(g, point) == AddPoint(g, point, Rejection(NearestOfBoth(g, point)))

\* addMove without the check of the game state
AddMoveAnyState(g, x, y, player) ==
    AddRounded(g, [x |-> Quantize(x), y |-> Quantize(y), player |-> player])

\* addMove(x, y, player): the game it leaves, the value it returns and the
\* rejection it logs
addMove(g, x, y, player) ==
    IF g.state # ONGOING
    THEN [game |-> g, ret |-> NULL, log |-> LOG_ENDED]
    ELSE AddRounded(g, [x |-> Quantize(x), y |-> Quantize(y), player |-> player])

\* isValidMove with the far bound exclusive
ValidGivenExclusive(nearest) ==
    IF Len(nearest) = 0 THEN TRUE
    ELSE IF BigLess(MinDist(nearest), WorldDist(SYMBOL_RADIUS * 2)) THEN FALSE
    ELSE BigLess(MinDist(nearest), WorldDist(MAX_PLACEMENT_DISTANCE))

\* isValidMove: the answer given the nearest stone of each index
ValidGiven(nearest) ==
    IF Len(nearest) = 0 THEN TRUE
    ELSE IF BigLess(MinDist(nearest), WorldDist(SYMBOL_RADIUS * 2)) THEN FALSE
    ELSE BigLeq(MinDist(nearest), WorldDist(MAX_PLACEMENT_DISTANCE))

\* isValidMove(x, y)
isValidMove(g, x, y) ==
    IF g.state # ONGOING THEN FALSE
    ELSE ValidGiven(NearestOfBoth(g, [x |-> Quantize(x), y |-> Quantize(y), player |-> 0]))

\* clone(): a new game with every recorded move replayed, from points[i] on
RECURSIVE Replay(_, _, _)
Replay(points, i, cp) ==
    IF i > Len(points) THEN cp
    ELSE Replay(points, i + 1,
                addMove(cp, ToWorld(points[i].x), ToWorld(points[i].y),
                        points[i].player).game)

\* clone() with the replay starting one move late
CloneFromSecond(g) == Replay(g.points, 2, NewGame)

clone(g) == Replay(g.points, 1, NewGame)

(* ------------------------- the running program ------------------------- *)
\* bounds of the model
MaxCalls == 2

\* the world coordinate n (a whole number of world units), as an input
World(n) == n * SCALE * SUB

\* games a sequence of addMove calls on a new Game() leaves: moves are
\* <<x, y, player>> in whole world units, played from moves[i] on
RECURSIVE Play(_, _, _)
Play(moves, i, g) ==
    IF i > Len(moves) THEN g
    ELSE Play(moves, i + 1,
              addMove(g, World(moves[i][1]), World(moves[i][2]), moves[i][3]).game)

Openings ==
    { <<>>,
      <<<<0, 0, 0>>>>,
      <<<<0, 0, 0>>, <<25, 0, 0>>, <<50, 0, 0>>, <<75, 0, 0>>>>,
      <<<<0, 0, 1>>, <<25, 0, 1>>, <<75, 0, 1>>, <<100, 0, 1>>, <<100, 25, 0>>>>,
      <<<<0, 0, 0>>, <<25, 0, 0>>, <<50, 0, 1>>, <<75, 0, 0>>, <<100, 0, 0>>>>,
      <<<<25, 0, 0>>, <<50, 0, 0>>, <<75, 0, 0>>, <<100, 0, 0>>, <<150, 7, 0>>>>,
      <<<<0, 0, 0>>, <<25, 0, 0>>, <<0, 25, 0>>, <<-25, 0, 0>>, <<0, -25, 0>>>>,
      <<<<25, 0, 0>>, <<0, 25, 0>>, <<-25, 0, 0>>, <<0, -25, 0>>>> }

OpeningGames == {Play(m, 1, NewGame) : m \in Openings}

\* positions a caller passes to addMove, in units of 1 / (SCALE * SUB)
Positions ==
    { [x |-> World(0), y |-> World(0)],
      [x |-> World(5), y |-> World(0)],
      [x |-> World(25) - 4, y |-> World(0)],
      [x |-> World(50), y |-> World(0)],
      [x |-> World(100), y |-> World(0)],
      [x |-> World(120) - 6, y |-> World(0)],
      [x |-> World(120), y |-> World(0)],
      [x |-> World(135), y |-> World(0)],
      [x |-> World(135) + 6, y |-> World(0)],
      [x |-> World(400), y |-> World(400)] }

Players == {0, 1}

NoCall ==
    [op |-> "none", via |-> "none", pos |-> NULL, ret |-> NULL, log |-> LOG_NONE,
     valid |-> FALSE]

\* the click handler when no AI turn is pending
Idle == [pc |-> "idle", attempt |-> 0, move |-> NULL, phases |-> <<>>]

\* new DebugDrawer()
NewDebugDrawer ==
    [enabled |-> FALSE, showAIPhases |-> TRUE, currentPhase |-> NULL,
     phaseQueue |-> <<>>, phaseIndex |-> -1, stepResolve |-> FALSE]

\* the training worker when its module is loaded: abortController = null,
\* no run
NewWorker ==
    [pc |-> "loaded", controller |-> FALSE, aborted |-> FALSE, params |-> NULL,
     gen |-> 0, i |-> 0, sim |-> 0, fitnesses |-> 0, moveNum |-> 0,
     matches |-> 0, stopped |-> FALSE, posted |-> <<>>]

\* no call of getMove is in progress
NoSearch == [pc |-> "idle"]

\* the page and the worker before any event
InitShell ==
    /\ aiThinking = FALSE
    /\ handler = Idle
    /\ debugDrawer = NewDebugDrawer
    /\ worker = NewWorker
    /\ search = NoSearch

Init ==
    /\ objects \in {<<g>> : g \in OpeningGames}
    /\ game = 1
    /\ copy = 0
    /\ currentPlayer = 0
    /\ last = NoCall
    /\ aiMove = NULL
    /\ calls = 0
    /\ InitShell

\* the object a caller reaches through its variable: `game`, or the `copy`
\* a clone() call returned
Deref(via) == IF via = "game" THEN game ELSE copy

\* a call addMove(x, y, player) through the caller's reference; valid is
\* what isValidMove(x, y) answers on the same object right before it
AddMoveCall(via, pos, player) ==
    /\ calls < MaxCalls
    /\ Deref(via) # 0
    /\ \E r \in {addMove(objects[Deref(via)], pos.x, pos.y, player)} :
           /\ objects' = [objects EXCEPT ![Deref(via)] = r.game]
           /\ last' = [op |-> "addMove", via |-> via, pos |-> pos, ret |-> r.ret, log |-> r.log,
                       valid |-> isValidMove(objects[Deref(via)], pos.x, pos.y)]
    /\ calls' = calls + 1
    /\ UNCHANGED <<game, copy, currentPlayer, aiMove>>
    /\ UNCHANGED shell

\* games whose stones of one player lie more than 5 * WIN_D_MAX / SCALE world
\* units apart
FarOpenings ==
    { <<<<0, 0, 0>>, <<60, 0, 0>>, <<120, 0, 0>>, <<180, 0, 0>>, <<205, 0, 0>>,
        <<230, 0, 0>>, <<255, 0, 0>>>>,
      <<<<0, 0, 1>>, <<50, 0, 1>>, <<100, 0, 1>>, <<150, 0, 1>>, <<200, 0, 1>>,
        <<200, 30, 0>>>> }

FarPositions ==
    { [x |-> World(280), y |-> World(0)],
      [x |-> World(250), y |-> World(0)],
      [x |-> World(225), y |-> World(25)],
      [x |-> World(155), y |-> World(0)],
      [x |-> World(30), y |-> World(30)],
      [x |-> World(-25), y |-> World(0)],
      [x |-> World(305), y |-> World(0)],
      [x |-> World(200), y |-> World(55)] }

InitFar ==
    /\ objects \in {<<Play(m, 1, NewGame)>> : m \in FarOpenings}
    /\ game = 1
    /\ copy = 0
    /\ currentPlayer = 0
    /\ last = NoCall
    /\ aiMove = NULL
    /\ calls = 0
    /\ InitShell

NextFar == \E pos \in FarPositions, player \in Players : AddMoveCall("game", pos, player)

SpecFar == InitFar /\ [][NextFar]_vars

\* the click handler: if (!move) return; currentPlayer = currentPlayer === 0 ? 1 : 0
PlayerAfter(move, player) ==
    IF move = NULL THEN player ELSE (IF player = 0 THEN 1 ELSE 0)

\* the canvas click handler with no AI chosen (ai = null, aiThinking = false)
Click(pos) ==
    /\ calls < MaxCalls
    /\ \E r \in {addMove(objects[game], pos.x, pos.y, currentPlayer)} :
           /\ objects' = [objects EXCEPT ![game] = r.game]
           /\ last' = [op |-> "click", via |-> "game", pos |-> pos, ret |-> r.ret, log |-> r.log,
                       valid |-> isValidMove(objects[game], pos.x, pos.y)]
           /\ currentPlayer' = PlayerAfter(r.ret, currentPlayer)
    /\ calls' = calls + 1
    /\ UNCHANGED <<game, copy, aiMove>>
    /\ UNCHANGED shell

Next ==
    \/ \E pos \in Positions, player \in Players : AddMoveCall("game", pos, player)
    \/ \E pos \in Positions : Click(pos)

Spec == Init /\ [][Next]_vars

\* clone() returning the object itself instead of a new Game
CloneAlias(objs, ref) == [objects |-> objs, ref |-> ref]

\* clone() on the object ref: the objects alive afterwards and the reference
\* returned; the copy is a new object
CloneObject(objs, ref) ==
    [objects |-> Append(objs, clone(objs[ref])), ref |-> Len(objs) + 1]

\* a call game.clone(), as the AIs make before they try moves
CloneCall ==
    /\ calls < MaxCalls
    /\ copy = 0
    /\ \E c \in {CloneObject(objects, game)} :
           /\ objects' = c.objects
           /\ copy' = c.ref
    /\ last' = [NoCall EXCEPT !.op = "clone", !.via = "game"]
    /\ calls' = calls + 1
    /\ UNCHANGED <<game, currentPlayer, aiMove>>
    /\ UNCHANGED shell

NextClone ==
    \/ CloneCall
    \/ \E via \in {"game", "copy"}, pos \in Positions, player \in Players :
           AddMoveCall(via, pos, player)

SpecClone == Init /\ [][NextClone]_vars

(* --------------------- Game.addMove of src/game.ts --------------------- *)
\* rule 1 and rule 2 of this addMove, which look at nearest[0] alone
RejectionOfFirst(nearest) ==
    IF Len(nearest) > 0 /\ BigLess(nearest[1].dist, WorldDist(SYMBOL_RADIUS * 2))
    THEN LOG_CLOSE
    ELSE IF Len(nearest) > 0
            /\ BigLess(WorldDist(MAX_PLACEMENT_DISTANCE), nearest[1].dist)
         THEN LOG_FAR
         ELSE LOG_NONE

\* this addMove on an ongoing game, for the rounded point: no line groups
\* and no winning pair are kept, checkWin only answers
AddPointOfFirst(g, point, log) ==
    IF log # LOG_NONE THEN [game |-> g, ret |-> NULL, log |-> log]
    ELSE [game |-> [Decided(Inserted(g, point), point,
                            checkWin(Inserted(g, point), point))
                      EXCEPT !.winPoints = <<>>],
          ret |-> point, log |-> LOG_NONE]

\* addMove(x, y, player) of src/game.ts
addMoveOfFirst(g, x, y, player) ==
    IF g.state # ONGOING
    THEN [game |-> g, ret |-> NULL, log |-> LOG_ENDED]
    ELSE AddPointOfFirst(
             g, [x |-> Quantize(x), y |-> Quantize(y), player |-> player],
             RejectionOfFirst(NearestOfBoth(
                 g, [x |-> Quantize(x), y |-> Quantize(y), player |-> player])))

RECURSIVE PlayOfFirst(_, _, _)
PlayOfFirst(moves, i, g) ==
    IF i > Len(moves) THEN g
    ELSE PlayOfFirst(moves, i + 1,
             addMoveOfFirst(g, World(moves[i][1]), World(moves[i][2]), moves[i][3]).game)

InitOfFirst ==
    /\ objects \in {<<PlayOfFirst(m, 1, NewGame)>> : m \in Openings}
    /\ game = 1
    /\ copy = 0
    /\ currentPlayer = 0
    /\ last = NoCall
    /\ aiMove = NULL
    /\ calls = 0
    /\ InitShell

\* a call addMove(x, y, player) on this Game
AddMoveOfFirstCall(pos, player) ==
    /\ calls < MaxCalls
    /\ \E r \in {addMoveOfFirst(objects[game], pos.x, pos.y, player)} :
           /\ objects' = [objects EXCEPT ![game] = r.game]
           /\ last' = [NoCall EXCEPT !.op = "addMove", !.via = "game", !.pos = pos,
                                     !.ret = r.ret, !.log = r.log]
    /\ calls' = calls + 1
    /\ UNCHANGED <<game, copy, currentPlayer, aiMove>>
    /\ UNCHANGED shell

NextOfFirst == \E pos \in Positions, player \in Players : AddMoveOfFirstCall(pos, player)

SpecOfFirst == InitOfFirst /\ [][NextOfFirst]_vars

(* ------------------------------ MediumAI ------------------------------- *)
\* firstMove: the probes around the target
FIRST_MOVE_PROBES == 20

\* firstMove: the move on an empty board
FIRST_MOVE_CENTRE == 400

\* (Math.cos(angle) * IDEAL_SPACING, Math.sin(angle) * IDEAL_SPACING) for
\* angle = 2 * pi * i / 20, i = 0 .. 19, in units of 1 / (SCALE * SUB)
ProbeOffsets ==
    << <<250000, 0>>, <<237764, 77254>>, <<202254, 146946>>, <<146946, 202254>>,
       <<77254, 237764>>, <<0, 250000>>, <<-77254, 237764>>, <<-146946, 202254>>,
       <<-202254, 146946>>, <<-237764, 77254>>, <<-250000, 0>>, <<-237764, -77254>>,
       <<-202254, -146946>>, <<-146946, -202254>>, <<-77254, -237764>>, <<0, -250000>>,
       <<77254, -237764>>, <<146946, -202254>>, <<202254, -146946>>, <<237764, -77254>> >>

\* firstMove: the i-th probed position
Probe(target, i) ==
    [x |-> ToWorld(target.x) + ProbeOffsets[i + 1][1],
     y |-> ToWorld(target.y) + ProbeOffsets[i + 1][2]]

\* firstMove: the loop over the probes, from probe i on, and the return
\* after it
RECURSIVE ProbeLoop(_, _, _)
ProbeLoop(g, target, i) ==
    IF i >= FIRST_MOVE_PROBES
    THEN [x |-> ToWorld(target.x) + World(IDEAL_SPACING), y |-> ToWorld(target.y)]
    ELSE IF isValidMove(g, Probe(target, i).x, Probe(target, i).y)
         THEN Probe(target, i)
         ELSE ProbeLoop(g, target, i + 1)

\* MediumAI.firstMove(game, opponentPoints)
firstMove(g, opponentPoints) ==
    IF Len(opponentPoints) = 0
    THEN [x |-> World(FIRST_MOVE_CENTRE), y |-> World(FIRST_MOVE_CENTRE)]
    ELSE ProbeLoop(g, opponentPoints[1], 0)

\* a call MediumAI.getMove(game, player) while the player has no stone yet:
\* the special case that returns firstMove's position
GetMoveCall(player) ==
    /\ calls < MaxCalls
    /\ getState(objects[game]) = ONGOING
    /\ Len(getPlayerPoints(objects[game], player)) = 0
    /\ aiMove' = firstMove(objects[game], getPlayerPoints(objects[game], 1 - player))
    /\ last' = [NoCall EXCEPT !.op = "getMove", !.via = "game"]
    /\ calls' = calls + 1
    /\ UNCHANGED <<objects, game, copy, currentPlayer>>
    /\ UNCHANGED shell

NextAI ==
    \/ \E player \in Players : GetMoveCall(player)
    \/ \E pos \in Positions, player \in Players : AddMoveCall("game", pos, player)

SpecAI == Init /\ [][NextAI]_vars

(* ------------------------- MediumAI: evaluation ------------------------ *)
\* DEFAULT_MEDIUM_CONFIG
lineWeight2 == 15
lineWeight3 == 200
lineWeight4 == 5000
openFactor == 3
\* opponentBias, 1.3, in tenths
opponentBias == 13
clusteringDecay == 30
clusteringWeight == 5

WIN_SCORE == 100000

\* floating-point values are kept to six decimals of a scaled unit
UNIT == SCALE * SCALE

\* the largest m in lo .. hi - 1 with m * m * n <= c2, for three-limb c2
RECURSIVE RootSearch(_, _, _, _)
RootSearch(lo, hi, c2, n) ==
    IF hi - lo <= 1 THEN lo
    ELSE IF TriLeq(TriMul(Sq((lo + hi) \div 2), n), c2)
         THEN RootSearch((lo + hi) \div 2, hi, c2, n)
         ELSE RootSearch(lo, (lo + hi) \div 2, c2, n)

\* Math.sqrt of a two-limb square, rounded down to a whole number
Sqrt(d2) == RootSearch(0, LIMB, <<0, d2[1], d2[2]>>, <<0, 1>>)

\* one component of the unit vector (dirX, dirY) of a group: c / |dir|, in
\* 1 / UNIT
WithSign(negative, m) == IF negative THEN -m ELSE m

UnitPart(c, dir) ==
    IF c = 0 THEN 0
    ELSE WithSign(c < 0,
                  IF dir[1] = 0 \/ dir[2] = 0 THEN UNIT
                  ELSE RootSearch(0, UNIT + 1, TriMul(Sq(c), Sq(UNIT)), Norm2(dir)))

\* a projection of a group, kept as t * |dir|, back in scaled units
InScaled(key, dir) ==
    IF dir[1] = 0 \/ dir[2] = 0 THEN key[1] * LIMB + key[2]
    ELSE WithSign(key[1] < 0,
                  RootSearch(0, LIMB, TriMul(WideAbs(key), WideAbs(key)), Norm2(dir)))

\* floor(w / UNIT + 1/2) of a two-limb number
WholeUnits(v) == v[1] * (LIMB \div UNIT) + v[2] \div UNIT

RoundUnit(w) == WholeUnits(BigAdd(w, Wide(UNIT \div 2)))

\* lineScore: (group.originX + group.dirX * t) / SCALE, (group.originY +
\* group.dirY * t) / SCALE for a projection t in scaled units, as the
\* scaled position isValidMove rounds it to
Along(origin, c, dir, t) == origin + RoundUnit(WideMul(UnitPart(c, dir), t))

Extension(group, t) ==
    [axis \in {"x", "y"} |->
        Along(IF axis = "x" THEN group.originX ELSE group.originY,
              IF axis = "x" THEN group.dir[1] ELSE group.dir[2], group.dir, t)]

\* lineScore: the loop that counts the longest consecutive run, from
\* projections[i] on
RECURSIVE RunLoop(_, _, _, _, _)
RunLoop(projections, dir, i, currentRun, maxRun) ==
    IF i > Len(projections) - 1 THEN maxRun
    ELSE IF GapWithin(WideSub(projections[i + 1], projections[i]), dir)
         THEN RunLoop(projections, dir, i + 1, currentRun + 1,
                      IF currentRun + 1 > maxRun THEN currentRun + 1 ELSE maxRun)
         ELSE RunLoop(projections, dir, i + 1, 1, maxRun)

\* lineScore: the two outward extension points
\* lineScore: minProj - spacing for k = 1, maxProj + spacing for k = 2
Outward(group, k) ==
    InScaled(group.projections[IF k = 1 THEN 1 ELSE Len(group.projections)], group.dir)
        + (IF k = 1 THEN -(IDEAL_SPACING * SCALE) ELSE IDEAL_SPACING * SCALE)

ExtensionPoints(group) == [k \in 1..2 |-> Extension(group, Outward(group, k))]

\* lineScore: the number of extension points that are valid moves
ValidAmong(state, ext) ==
    Cardinality({k \in 1..2 : isValidMove(state, ToWorld(ext[k].x), ToWorld(ext[k].y))})

OpenEnds(group, state) == ValidAmong(state, ExtensionPoints(group))

\* lineScore: weights[maxRun] ?? maxRun * 5
Weight(maxRun) ==
    CASE maxRun = 2 -> lineWeight2
      [] maxRun = 3 -> lineWeight3
      [] maxRun = 4 -> lineWeight4
      [] OTHER -> maxRun * 5

\* lineScore: the value of a run of maxRun stones with openEnds open ends,
\* every open end counted
WeightedPerEnd(maxRun, openEnds) == Weight(maxRun) * openEnds

\* lineScore: the value of a run of maxRun stones with openEnds open ends
Weighted(maxRun, openEnds) ==
    IF openEnds = 0 THEN 0
    ELSE Weight(maxRun) * (IF openEnds = 2 THEN openFactor ELSE 1)

\* MediumAI.lineScore(group, state)
ScoreOfRun(group, state, maxRun) ==
    IF maxRun >= 5 THEN WIN_SCORE
    ELSE IF maxRun < 2 THEN 0
    ELSE Weighted(maxRun, OpenEnds(group, state))

lineScore(group, state) ==
    IF Len(group.projections) < 2 THEN 0
    ELSE ScoreOfRun(group, state, RunLoop(group.projections, group.dir, 1, 1, 1))

\* the sum of lineScore over groups[i..]
RECURSIVE LineSum(_, _, _)
LineSum(groups, state, i) ==
    IF i > Len(groups) THEN 0
    ELSE lineScore(groups[i], state) + LineSum(groups, state, i + 1)

\* evaluate: totalDist over the pairs (i, j), j > i, in scaled units
RECURSIVE TotalDist(_, _, _)
TotalDist(aiPoints, i, j) ==
    IF i > Len(aiPoints) THEN 0
    ELSE IF j > Len(aiPoints) THEN TotalDist(aiPoints, i + 1, i + 2)
    ELSE Sqrt(distance(aiPoints[i], aiPoints[j])) + TotalDist(aiPoints, i, j + 1)

\* Math.exp(-k) for k = 0 .. 9, in 1 / HALF_LIMB; smaller beyond
ExpTable == <<10000, 3679, 1353, 498, 183, 67, 25, 9, 3, 1>>

\* Math.exp(-f) for 0 <= f < 1 given in 1 / HALF_LIMB, in 1 / HALF_LIMB:
\* the series 1 - f + f^2/2 - ..., from the term of degree n on
RECURSIVE ExpSeries(_, _, _)
ExpSeries(f, n, term) ==
    IF term = 0 THEN 0
    ELSE term - ExpSeries(f, n + 1, (term * f) \div (HALF_LIMB * (n + 1)))

\* Math.exp(-x) for x >= 0 given in 1 / HALF_LIMB, in 1 / LIMB
Exp(x) ==
    IF x \div HALF_LIMB >= Len(ExpTable) THEN 0
    ELSE ExpTable[x \div HALF_LIMB + 1] * ExpSeries(x % HALF_LIMB, 0, HALF_LIMB)

\* evaluate: the positional clustering bonus, in 1 / LIMB
Clustering(aiPoints) ==
    IF Len(aiPoints) > 1
    THEN LET pairs == (Len(aiPoints) * (Len(aiPoints) - 1)) \div 2
         IN  clusteringWeight
               * Exp((TotalDist(aiPoints, 1, 2) * (HALF_LIMB \div SCALE))
                       \div (pairs * clusteringDecay))
    ELSE 0

\* evaluate testing the first open end by placing a stone there
EvaluateProbing(state, aiPlayer) ==
    LET groups == getLineGroups(state, aiPlayer) \o getLineGroups(state, 1 - aiPlayer)
        ext == ExtensionPoints(groups[1])[1]
    IN  [game |-> IF groups = <<>> THEN state
                  ELSE addMove(state, ToWorld(ext.x), ToWorld(ext.y), aiPlayer).game,
         score |-> [line |-> 10 * LineSum(getLineGroups(state, aiPlayer), state, 1)
                             - opponentBias * LineSum(getLineGroups(state, 1 - aiPlayer), state, 1),
                    cluster |-> Clustering(getPlayerPoints(state, aiPlayer))]]

\* MediumAI.evaluate(state, aiPlayer): the game as the call leaves it and
\* the score, the line part in tenths and the clustering part in 1 / LIMB
evaluate(state, aiPlayer) ==
    [game |-> state,
     score |-> [line |-> 10 * LineSum(getLineGroups(state, aiPlayer), state, 1)
                         - opponentBias * LineSum(getLineGroups(state, 1 - aiPlayer), state, 1),
                cluster |-> Clustering(getPlayerPoints(state, aiPlayer))]]

\* games with a run of four and none, one or both of its ends taken
Fours ==
    { <<<<25, 0, 0>>, <<50, 0, 0>>, <<75, 0, 0>>, <<100, 0, 0>>>>,
      <<<<25, 0, 0>>, <<50, 0, 0>>, <<75, 0, 0>>, <<100, 0, 0>>, <<125, 0, 1>>>>,
      <<<<0, 0, 1>>, <<25, 0, 0>>, <<50, 0, 0>>, <<75, 0, 0>>, <<100, 0, 0>>, <<125, 0, 1>>>>,
      <<<<0, 25, 1>>, <<0, 50, 1>>, <<0, 75, 1>>, <<0, 100, 1>>, <<25, 0, 0>>, <<50, 0, 0>>>> }

InitEval ==
    /\ objects \in {<<Play(m, 1, NewGame)>> : m \in Fours}
    /\ game = 1
    /\ copy = 0
    /\ currentPlayer = 0
    /\ last = NoCall
    /\ aiMove = NULL
    /\ calls = 0
    /\ InitShell

\* a call MediumAI.evaluate(game, aiPlayer); ret is the score
EvaluateCall(aiPlayer) ==
    /\ calls < MaxCalls
    /\ \E r \in {evaluate(objects[game], aiPlayer)} :
           /\ objects' = [objects EXCEPT ![game] = r.game]
           /\ last' = [NoCall EXCEPT !.op = "evaluate", !.via = "game",
                                     !.pos = aiPlayer, !.ret = r.score]
    /\ calls' = calls + 1
    /\ UNCHANGED <<game, copy, currentPlayer, aiMove>>
    /\ UNCHANGED shell

NextEval ==
    \/ \E aiPlayer \in Players : EvaluateCall(aiPlayer)
    \/ \E pos \in Positions, player \in Players : AddMoveCall("game", pos, player)

SpecEval == InitEval /\ [][NextEval]_vars

(* ------------------------------- EasyAI -------------------------------- *)
TOP_K == 3
NOISE_AMOUNT == 15
CRITICAL_BLOCK_SCORE == 500
DEFENSIVE_BLOCK_SCORE == 150
OFFENSIVE_WEIGHT == 20
CLUSTERING_DECAY == 30
NEARBY_RANDOM_COUNT == 2

\* MoveReason
CRITICAL_BLOCK == "critical_block"
DEFENSIVE_BLOCK == "defensive_block"
OFFENSIVE_EXTENSION == "offensive_extension"
NEARBY_RANDOM == "nearby_random"

\* outcomes of a random draw (Math.cos(angle) * dist, Math.sin(angle) * dist)
\* with angle = Math.random() * Math.PI * 2 and a random dist whose range
\* holds IDEAL_SPACING: the four draws along the axes at that distance, in
\* world units
RandomOffsets ==
    { <<IDEAL_SPACING, 0>>, <<0, IDEAL_SPACING>>, <<-IDEAL_SPACING, 0>>, <<0, -IDEAL_SPACING>> }

\* target.x / SCALE + dx, target.y / SCALE + dy, as the scaled position it
\* is rounded to
Offset(target, d) == [x |-> target.x + d[1] * SCALE, y |-> target.y + d[2] * SCALE]

\* game.isValidMove(x, y) at a scaled position
ValidAt(g, p) == isValidMove(g, ToWorld(p.x), ToWorld(p.y))

\* a loop of random probes that returns the first valid one and `otherwise`
\* after the last: the positions it can return
ProbeOutcomes(g, probes, otherwise) ==
    {p \in probes : ValidAt(g, p)}
        \cup (IF \E p \in probes : ~ValidAt(g, p) THEN {otherwise} ELSE {})

\* EasyAI.firstMove(game, opponentPoints): the positions it can return
EasyFirstMove(g, opponentPoints) ==
    IF Len(opponentPoints) = 0
    THEN {[x |-> FIRST_MOVE_CENTRE * SCALE, y |-> FIRST_MOVE_CENTRE * SCALE]}
    ELSE UNION {ProbeOutcomes(g, {Offset(target, d) : d \in RandomOffsets},
                              Offset(target, <<IDEAL_SPACING, 0>>)) :
                    target \in Range(opponentPoints)}

\* EasyAI.fallbackMove(game, aiPoints, opponentPoints): the positions it can
\* return
EasyFallbackMove(g, aiPoints, opponentPoints) ==
    LET allPoints == aiPoints \o opponentPoints
    IN  ProbeOutcomes(g, {Offset(target, d) : target \in Range(allPoints), d \in RandomOffsets},
                      Offset(allPoints[1], <<IDEAL_SPACING, 0>>))

\* the candidate Map, in insertion order: the index of the entry with the
\* key of position p, 0 when there is none
MapIndex(candidates, p) ==
    IF \E k \in 1..Len(candidates) : candidates[k].x = p.x /\ candidates[k].y = p.y
    THEN CHOOSE k \in 1..Len(candidates) : candidates[k].x = p.x /\ candidates[k].y = p.y
    ELSE 0

\* candidates.set(key, c)
MapSet(candidates, c) ==
    IF MapIndex(candidates, c) = 0 THEN Append(candidates, c)
    ELSE [candidates EXCEPT ![MapIndex(candidates, c)] = c]

\* addLineExtensions: one extension point
PutExtension(candidates, p) ==
    IF MapIndex(candidates, p) = 0
       \/ candidates[MapIndex(candidates, p)].reason = NEARBY_RANDOM
    THEN MapSet(candidates, [x |-> p.x, y |-> p.y, reason |-> OFFENSIVE_EXTENSION,
                             threatSize |-> 0])
    ELSE candidates

\* addLineExtensions: the two extension points of one group
PutExtensions(candidates, ext) == PutExtension(PutExtension(candidates, ext[1]), ext[2])

\* EasyAI.addLineExtensions(groups, candidates), from groups[i] on
RECURSIVE EasyLineExtensions(_, _, _)
EasyLineExtensions(groups, i, candidates) ==
    IF i > Len(groups) THEN candidates
    ELSE IF Cardinality(groups[i].stones) < 2
         THEN EasyLineExtensions(groups, i + 1, candidates)
         ELSE EasyLineExtensions(groups, i + 1,
                                 PutExtensions(candidates, ExtensionPoints(groups[i])))

reasonPriority(reason) ==
    CASE reason = CRITICAL_BLOCK -> 4
      [] reason = DEFENSIVE_BLOCK -> 3
      [] reason = OFFENSIVE_EXTENSION -> 2
      [] reason = NEARBY_RANDOM -> 1
      [] OTHER -> 0

\* addBlockingMoves: one extension point of an opponent group of size stones
PutBlock(candidates, p, reason, size) ==
    IF MapIndex(candidates, p) = 0
       \/ reasonPriority(reason) > reasonPriority(candidates[MapIndex(candidates, p)].reason)
       \/ size > candidates[MapIndex(candidates, p)].threatSize
    THEN MapSet(candidates, [x |-> p.x, y |-> p.y, reason |-> reason, threatSize |-> size])
    ELSE candidates

\* addBlockingMoves: the two extension points of one opponent group
PutBlocks(candidates, ext, reason, size) ==
    PutBlock(PutBlock(candidates, ext[1], reason, size), ext[2], reason, size)

BlockGroup(candidates, group) ==
    PutBlocks(candidates, ExtensionPoints(group),
              IF Cardinality(group.stones) >= 4 THEN CRITICAL_BLOCK ELSE DEFENSIVE_BLOCK,
              Cardinality(group.stones))

\* EasyAI.addBlockingMoves(opponentGroups, candidates), from groups[i] on
RECURSIVE EasyBlockingMoves(_, _, _)
EasyBlockingMoves(groups, i, candidates) ==
    IF i > Len(groups) THEN candidates
    ELSE IF Cardinality(groups[i].stones) < 3
         THEN EasyBlockingMoves(groups, i + 1, candidates)
         ELSE EasyBlockingMoves(groups, i + 1, BlockGroup(candidates, groups[i]))

\* EasyAI.addNearbyRandom(aiPoints, candidates): draws[i][j] is the j-th draw
\* around aiPoints[i]; from draw j of stone i on
RECURSIVE EasyNearbyRandom(_, _, _, _, _)
EasyNearbyRandom(aiPoints, draws, i, j, candidates) ==
    IF i > Len(aiPoints) THEN candidates
    ELSE IF j > NEARBY_RANDOM_COUNT THEN EasyNearbyRandom(aiPoints, draws, i + 1, 1, candidates)
    ELSE EasyNearbyRandom(aiPoints, draws, i, j + 1,
             IF MapIndex(candidates, Offset(aiPoints[i], draws[i][j])) = 0
             THEN Append(candidates,
                         [x |-> Offset(aiPoints[i], draws[i][j]).x,
                          y |-> Offset(aiPoints[i], draws[i][j]).y,
                          reason |-> NEARBY_RANDOM, threatSize |-> 0])
             ELSE candidates)

\* the smallest of the squared distances from c to the stones
RECURSIVE MinSquare(_, _, _, _)
MinSquare(c, stones, i, best) ==
    IF i > Len(stones) THEN best
    ELSE MinSquare(c, stones, i + 1,
                   IF BigLess(distance(stones[i], c), best) THEN distance(stones[i], c)
                   ELSE best)

\* EasyAI.scoreMove(candidate, aiPoints) before the random noise: the whole
\* part, and the clustering bonus in 1 / LIMB
EasyScore(c, aiPoints) ==
    [whole |->
        (CASE c.reason = CRITICAL_BLOCK -> CRITICAL_BLOCK_SCORE
           [] c.reason = DEFENSIVE_BLOCK -> DEFENSIVE_BLOCK_SCORE
           [] OTHER -> 0)
        + OFFENSIVE_WEIGHT * Cardinality({k \in 1..Len(aiPoints) :
              /\ BigLess(Sq((IDEAL_SPACING - 10) * SCALE), distance(aiPoints[k], c))
              /\ BigLess(distance(aiPoints[k], c), Sq((IDEAL_SPACING + 10) * SCALE))}),
     bonus |->
        10 * Exp((Sqrt(MinSquare(c, aiPoints, 2, distance(aiPoints[1], c)))
                    * (HALF_LIMB \div SCALE)) \div CLUSTERING_DECAY)]

\* s stays ahead of t whatever noise in [-NOISE_AMOUNT, NOISE_AMOUNT) each
\* of them gets: s - t >= 2 * NOISE_AMOUNT
Outranks(s, t) ==
    \/ s.whole - t.whole > 2 * NOISE_AMOUNT
    \/ s.whole - t.whole = 2 * NOISE_AMOUNT /\ s.bonus >= t.bonus

\* sort descending by score, slice(0, TOP_K), pick one at random: the scored
\* moves that can be picked
TopPick(scored) ==
    {k \in 1..Len(scored) :
        Cardinality({j \in 1..Len(scored) : j # k /\ Outranks(scored[j].score, scored[k].score)})
            < TOP_K}

\* getMove from the candidate Map on: the positions it can return
\* candidates.map(c => ({ move: c, score: this.scoreMove(c, aiPoints) }))
Scored(candidates, aiPoints) ==
    [k \in 1..Len(candidates) |->
        [x |-> candidates[k].x, y |-> candidates[k].y, reason |-> candidates[k].reason,
         score |-> EasyScore(candidates[k], aiPoints)]]

\* the positions picked among the scored moves
Picked(scored) == {[x |-> scored[k].x, y |-> scored[k].y] : k \in TopPick(scored)}

\* the critical blocks when there are any, else every scored move
PickAmong(scored, criticalBlocks) ==
    Picked(IF Len(criticalBlocks) > 0 THEN criticalBlocks ELSE scored)

\* getMove from the scored valid candidates on
ChooseScored(g, scored, aiPoints, opponentPoints) ==
    IF Len(scored) = 0 THEN EasyFallbackMove(g, aiPoints, opponentPoints)
    ELSE PickAmong(scored, SelectSeq(scored, LAMBDA m : m.reason = CRITICAL_BLOCK))

EasyChoose(g, candidateMap, aiPoints, opponentPoints) ==
    ChooseScored(g, Scored(SelectSeq(candidateMap, LAMBDA c : ValidAt(g, c)), aiPoints),
                 aiPoints, opponentPoints)

\* EasyAI.getMove(game, player): the positions it can return
EasyGetMove(g, player) ==
    LET aiPoints == getPlayerPoints(g, player)
        opponentPoints == getPlayerPoints(g, 1 - player)
        fixed == EasyBlockingMoves(getLineGroups(g, 1 - player), 1,
                     EasyLineExtensions(getLineGroups(g, player), 1, <<>>))
    IN  IF Len(aiPoints) = 0 THEN EasyFirstMove(g, opponentPoints)
        ELSE UNION {EasyChoose(g, EasyNearbyRandom(aiPoints, draws, 1, 1, fixed),
                               aiPoints, opponentPoints) :
                        draws \in [1..Len(aiPoints) ->
                                      [1..NEARBY_RANDOM_COUNT -> RandomOffsets]]}

(* --------------------------- MediumAI: search -------------------------- *)
MINIMAX_DEPTH == 2
maxCandidates == 10
criticalBlockScore == 500
defensiveBlockScore == 150
offensiveExtensionScore == 50
threatSizeWeight == 30

\* -Infinity and Infinity as scores: beyond every score a game can get
Infinity == [line |-> LIMB, cluster |-> 0]
MinusInfinity == [line |-> -LIMB, cluster |-> 0]

\* WIN_SCORE and -WIN_SCORE as scores
Won == [line |-> 10 * WIN_SCORE, cluster |-> 0]
Lost == [line |-> -10 * WIN_SCORE, cluster |-> 0]

\* s > t for two scores: the line parts are whole numbers of halves and the
\* clustering parts lie in [0, clusteringWeight)
ScoreGreater(s, t) ==
    \/ s.line - t.line >= 10 * clusteringWeight
    \/ /\ t.line - s.line < 10 * clusteringWeight
       /\ (s.line - t.line) * (LIMB \div 10) + (s.cluster - t.cluster) > 0

\* Math.max(s, t), Math.min(s, t)
MaxScore(s, t) == IF ScoreGreater(t, s) THEN t ELSE s
MinScore(s, t) == IF ScoreGreater(s, t) THEN t ELSE s

\* MediumAI.addLineExtensions: one extension point of a group of size stones
PutSized(candidates, p, size) ==
    IF MapIndex(candidates, p) = 0
       \/ candidates[MapIndex(candidates, p)].reason = NEARBY_RANDOM
    THEN MapSet(candidates, [x |-> p.x, y |-> p.y, reason |-> OFFENSIVE_EXTENSION,
                             threatSize |-> size])
    ELSE candidates

PutBothSized(candidates, ext, size) ==
    PutSized(PutSized(candidates, ext[1], size), ext[2], size)

\* MediumAI.addLineExtensions(groups, candidates), from groups[i] on
RECURSIVE addLineExtensions(_, _, _)
addLineExtensions(groups, i, candidates) ==
    IF i > Len(groups) THEN candidates
    ELSE IF Cardinality(groups[i].stones) < 2
         THEN addLineExtensions(groups, i + 1, candidates)
         ELSE addLineExtensions(groups, i + 1,
                  PutBothSized(candidates, ExtensionPoints(groups[i]),
                               Cardinality(groups[i].stones)))

\* MediumAI.addBlockingMoves(opponentGroups, candidates), from groups[i] on
RECURSIVE addBlockingMoves(_, _, _)
addBlockingMoves(groups, i, candidates) ==
    IF i > Len(groups) THEN candidates
    ELSE IF Cardinality(groups[i].stones) < 2
         THEN addBlockingMoves(groups, i + 1, candidates)
         ELSE addBlockingMoves(groups, i + 1, BlockGroup(candidates, groups[i]))

\* addTacticalNeighbors: (Math.cos(angle) * IDEAL_SPACING, Math.sin(angle) *
\* IDEAL_SPACING) for the eight angles, in scaled units
TacticalOffsets ==
    << <<25000, 0>>, <<17678, 17678>>, <<0, 25000>>, <<-17678, 17678>>,
       <<-25000, 0>>, <<-17678, -17678>>, <<0, -25000>>, <<17678, -17678>> >>

\* addTacticalNeighbors: the neighbour of stone at angle k
Neighbor(stone, k) ==
    [x |-> stone.x + TacticalOffsets[k][1], y |-> stone.y + TacticalOffsets[k][2]]

\* addTacticalNeighbors: the n-th neighbour the two loops visit, as a
\* candidate
NthNeighbor(playerPoints, n) ==
    [x |-> Neighbor(playerPoints[(n - 1) \div Len(TacticalOffsets) + 1],
                    ((n - 1) % Len(TacticalOffsets)) + 1).x,
     y |-> Neighbor(playerPoints[(n - 1) \div Len(TacticalOffsets) + 1],
                    ((n - 1) % Len(TacticalOffsets)) + 1).y,
     reason |-> OFFENSIVE_EXTENSION, threatSize |-> 0]

\* the elements of s at the indices in kept, in order
Kept(s, kept) ==
    [j \in 1..Cardinality(kept) |->
        s[CHOOSE k \in kept : Cardinality({m \in kept : m <= k}) = j]]

\* MediumAI.addTacticalNeighbors(playerPoints, candidates): a neighbour is
\* set when its key is not in the map, so the first of each key is added
AddVisited(candidates, visited) ==
    candidates \o
        Kept(visited,
             {n \in 1..Len(visited) :
                 /\ MapIndex(candidates, visited[n]) = 0
                 /\ \A m \in 1..(n - 1) :
                        visited[m].x # visited[n].x \/ visited[m].y # visited[n].y})

addTacticalNeighbors(playerPoints, candidates) ==
    AddVisited(candidates,
               [n \in 1..(Len(playerPoints) * Len(TacticalOffsets)) |->
                   NthNeighbor(playerPoints, n)])

\* generateCandidates: the tactical neighbours, added when there are too few
\* candidates
WithNeighbors(playerPoints, candidateMap) ==
    IF Len(candidateMap) < maxCandidates
    THEN addTacticalNeighbors(playerPoints, candidateMap)
    ELSE candidateMap

\* generateCandidates: candidateMap after addLineExtensions and
\* addBlockingMoves
Queued(g, player) ==
    addBlockingMoves(getLineGroups(g, 1 - player), 1,
                     addLineExtensions(getLineGroups(g, player), 1, <<>>))

\* generateCandidates: candidateMap before the isValidMove filter
CandidateMap(g, player) == WithNeighbors(getPlayerPoints(g, player), Queued(g, player))

\* MediumAI.generateCandidates(game, player)
generateCandidates(g, player) ==
    SelectSeq(CandidateMap(g, player), LAMBDA c : ValidAt(g, c))

\* MediumAI.quickScore(candidate, game, player): the whole part, and the
\* squared distance to the nearest own stone that decides the clustering
\* part, clusterQuickWeight * Math.exp(-minDist / clusteringDecay) < 10; the
\* distance is taken from the position the candidate is rounded to
quickScore(c, points) ==
    [whole |->
        (CASE c.reason = CRITICAL_BLOCK -> criticalBlockScore
           [] c.reason = DEFENSIVE_BLOCK -> defensiveBlockScore
           [] c.reason = OFFENSIVE_EXTENSION -> offensiveExtensionScore
           [] OTHER -> 0)
        + c.threatSize * threatSizeWeight,
     near |-> IF Len(points) = 0 THEN <<0, 0>>
              ELSE MinSquare(c, points, 2, distance(points[1], c))]

\* quickScore(b) - quickScore(a) < 0: a sorts before b
QuickBefore(a, b) ==
    \/ a.whole > b.whole
    \/ a.whole = b.whole /\ BigLess(a.near, b.near)

\* Array.prototype.sort by descending quickScore (a stable sort) of
\* candidates that carry their quickScore in the field quick: the element at
\* index k goes behind those that sort before it and the earlier ones that
\* compare equal
SortQuick(s) ==
    [j \in 1..Len(s) |->
        s[CHOOSE k \in 1..Len(s) :
              Cardinality({m \in 1..Len(s) :
                              \/ QuickBefore(s[m].quick, s[k].quick)
                              \/ m < k /\ ~QuickBefore(s[k].quick, s[m].quick)}) = j - 1]]

\* moves.sort(...).slice(0, maxCandidates)
Slice(sorted) ==
    SubSeq(sorted, 1, IF Len(sorted) < maxCandidates THEN Len(sorted) ELSE maxCandidates)

TopMoves(moves, points) ==
    Slice(SortQuick([k \in 1..Len(moves) |->
              [x |-> moves[k].x, y |-> moves[k].y, reason |-> moves[k].reason,
               threatSize |-> moves[k].threatSize,
               quick |-> quickScore(moves[k], points)]]))

\* const child = state.clone(); child.addMove(move.x, move.y, currentPlayer):
\* the objects alive afterwards, the child's reference and addMove's result
TriedWith(c, r) ==
    [objects |-> [c.objects EXCEPT ![c.ref] = r.game], ref |-> c.ref, ret |-> r.ret]

Tried(c, move, mover) ==
    TriedWith(c, addMove(c.objects[c.ref], ToWorld(move.x), ToWorld(move.y), mover))

\* the move tried on the state itself, without a clone
TryInPlace(objs, ref, move, mover) == Tried([objects |-> objs, ref |-> ref], move, mover)

\* a move of the search tried on a clone of the state
TryMove(objs, ref, move, mover) == Tried(CloneObject(objs, ref), move, mover)

\* evaluate at a leaf: the objects as the call leaves them and the score
LeafWith(objs, ref, r) == [objects |-> [objs EXCEPT ![ref] = r.game], score |-> r.score]

Leaf(objs, ref, aiPlayer) == LeafWith(objs, ref, evaluate(objs[ref], aiPlayer))

\* MediumAI.fallbackMove(game, aiPoints, opponentPoints): the positions it
\* can return
fallbackMove(g, aiPoints, opponentPoints) == EasyFallbackMove(g, aiPoints, opponentPoints)

\* getMove searches only as one of the first FirstCalls calls
FirstCalls == 1

\* A call of MediumAI.minimax that has reached its loop is a frame:
\* [ref, keep, topMoves, i, depth, alpha, beta, best, maximizingPlayer, done]
\* with ref the state it searches, keep the number of objects alive when its
\* state was cloned, i the next pass of the loop over topMoves, best its
\* maxEval or minEval and done set by the break.
\* the loop with breaking on and on its way to break at the first move searched
AfterSubFirst(f, score, pruning) ==
    IF f.maximizingPlayer
    THEN [f EXCEPT !.best = MaxScore(f.best, score), !.alpha = MaxScore(f.alpha, score),
                   !.i = f.i + 1, !.done = pruning]
    ELSE [f EXCEPT !.best = MinScore(f.best, score), !.beta = MinScore(f.beta, score),
                   !.i = f.i + 1, !.done = pruning]

\* minimax: the rest of a pass of the loop once the recursive call on the
\* child returned score, in the maximizing and in the minimizing branch;
\* pruning is off in the search taken as reference, which is the code
\* without its two break statements
AfterSub(f, score, pruning) ==
    IF f.maximizingPlayer
    THEN [f EXCEPT !.best = MaxScore(f.best, score),
                   !.alpha = MaxScore(f.alpha, score),
                   !.i = f.i + 1,
                   !.done = pruning /\ ~ScoreGreater(f.beta, MaxScore(f.alpha, score))]
    ELSE [f EXCEPT !.best = MinScore(f.best, score),
                   !.beta = MinScore(f.beta, score),
                   !.i = f.i + 1,
                   !.done = pruning /\ ~ScoreGreater(MinScore(f.beta, score), f.alpha)]

\* a call that returns before its loop, as the objects it leaves and its value
Returned(objs, score) == [objects |-> objs, score |-> score, frame |-> NULL]

\* minimax from the sorted top moves on: evaluate when there is none, else
\* the loop is entered
Entered(objs, ref, keep, topMoves, depth, alpha, beta, maximizingPlayer, aiPlayer) ==
    IF Len(topMoves) = 0 THEN Leaf(objs, ref, aiPlayer) @@ [frame |-> NULL]
    ELSE [objects |-> objs, score |-> NULL,
          frame |-> [ref |-> ref, keep |-> keep, topMoves |-> topMoves, i |-> 1,
                     depth |-> depth, alpha |-> alpha, beta |-> beta,
                     best |-> IF maximizingPlayer THEN MinusInfinity ELSE Infinity,
                     maximizingPlayer |-> maximizingPlayer, done |-> FALSE]]

\* MediumAI.minimax(state, depth, alpha, beta, maximizingPlayer, aiPlayer) on
\* the object ref up to its loop: the terminal and leaf tests, the candidates
\* of the player to move, sorted and capped
minimax(objs, ref, keep, depth, alpha, beta, maximizingPlayer, aiPlayer) ==
    IF getState(objs[ref]) # ONGOING
    THEN Returned(objs, IF getState(objs[ref]) = (IF aiPlayer = 0 THEN WIN_0 ELSE WIN_1)
                        THEN Won ELSE Lost)
    ELSE IF depth = 0 THEN Leaf(objs, ref, aiPlayer) @@ [frame |-> NULL]
    ELSE Entered(objs, ref, keep,
                 TopMoves(generateCandidates(objs[ref],
                              IF maximizingPlayer THEN aiPlayer ELSE 1 - aiPlayer),
                          getPlayerPoints(objs[ref],
                              IF maximizingPlayer THEN aiPlayer ELSE 1 - aiPlayer)),
                 depth, alpha, beta, maximizingPlayer, aiPlayer)

\* getMove: the rest of a pass of the loop over topCandidates once minimax
\* on the child returned score
RootAfterSub(s, score) ==
    [s EXCEPT !.minimaxResults = Append(s.minimaxResults,
                                        [candidate |-> s.i, score |-> score]),
              !.bestScore = IF ScoreGreater(score, s.bestScore) THEN score ELSE s.bestScore,
              !.bestMove = IF ScoreGreater(score, s.bestScore) THEN s.i ELSE s.bestMove,
              !.i = s.i + 1,
              !.frames = <<>>]

\* the games a search starts from: both players have a stone
SearchOpenings ==
    { <<<<0, 0, 0>>, <<25, 0, 1>>>>,
      <<<<0, 0, 0>>, <<25, 0, 1>>, <<0, 25, 0>>, <<50, 0, 1>>>> }

InitSearch ==
    /\ objects \in {<<Play(m, 1, NewGame)>> : m \in SearchOpenings}
    /\ game = 1
    /\ copy = 0
    /\ currentPlayer = 0
    /\ last = NoCall
    /\ aiMove = NULL
    /\ calls = 0
    /\ InitShell

\* getMove up to its loop over topCandidates: the candidates are generated,
\* sorted and capped; given is the game as the call received it and pruned
\* what an earlier search of the same game found
Started(player, pruning, pruned) ==
    /\ \E top \in {TopMoves(generateCandidates(objects[game], player),
                            getPlayerPoints(objects[game], player))} :
           search' = [pc |-> "search", pruning |-> pruning, player |-> player,
                      given |-> objects[game], topCandidates |-> top, i |-> 1,
                      bestScore |-> MinusInfinity, bestMove |-> 0,
                      minimaxResults |-> <<>>, frames |-> <<>>, clones |-> 0,
                      cuts |-> 0, pruned |-> pruned]
    /\ UNCHANGED <<objects, game, copy, currentPlayer, last, aiMove, calls>>
    /\ UNCHANGED page

\* a call ai.getMove(game, player) of a MediumAI whose player has a stone
SearchCall(player) ==
    /\ calls < FirstCalls
    /\ search.pc = "idle"
    /\ getState(objects[game]) = ONGOING
    /\ Len(getPlayerPoints(objects[game], player)) > 0
    /\ Started(player, TRUE, NULL)

\* getMove: a pass of the loop over topCandidates up to the loop of the
\* minimax call on the child, or through the whole pass when the move is
\* rejected or minimax returns before its loop; the child is garbage after
\* the pass
RootPass ==
    /\ search.pc = "search"
    /\ search.frames = <<>>
    /\ search.i <= Len(search.topCandidates)
    /\ \E child \in {TryMove(objects, game, search.topCandidates[search.i], search.player)} :
           IF child.ret = NULL
           THEN /\ objects' = SubSeq(child.objects, 1, Len(objects))
                /\ search' = [search EXCEPT !.i = search.i + 1,
                                            !.clones = search.clones + 1]
           ELSE \E r \in {minimax(child.objects, child.ref, Len(objects), MINIMAX_DEPTH,
                                  MinusInfinity, Infinity, FALSE, search.player)} :
                    IF r.frame = NULL
                    THEN /\ objects' = SubSeq(r.objects, 1, Len(objects))
                         /\ search' = [RootAfterSub(search, r.score)
                                          EXCEPT !.clones = search.clones + 1]
                    ELSE /\ objects' = r.objects
                         /\ search' = [search EXCEPT !.frames = <<r.frame>>,
                                                     !.clones = search.clones + 1]
    /\ UNCHANGED <<game, copy, currentPlayer, last, aiMove, calls>>
    /\ UNCHANGED page

\* the frames with the innermost replaced by f
WithTop(frames, f) == [frames EXCEPT ![Len(frames)] = f]

\* minimax: a pass of the loop over topMoves of the innermost call, up to the
\* loop of the recursive call or through the whole pass
MovePass ==
    /\ search.pc = "search"
    /\ search.frames # <<>>
    /\ \E f \in {search.frames[Len(search.frames)]} :
         /\ ~f.done
         /\ f.i <= Len(f.topMoves)
         /\ \E child \in {TryMove(objects, f.ref, f.topMoves[f.i],
                                  IF f.maximizingPlayer THEN search.player
                                  ELSE 1 - search.player)} :
              IF child.ret = NULL
              THEN /\ objects' = SubSeq(child.objects, 1, Len(objects))
                   /\ search' = [search EXCEPT
                                    !.frames = WithTop(search.frames, [f EXCEPT !.i = f.i + 1]),
                                    !.clones = search.clones + 1]
              ELSE \E r \in {minimax(child.objects, child.ref, Len(objects), f.depth - 1,
                                     f.alpha, f.beta, ~f.maximizingPlayer, search.player)} :
                       IF r.frame = NULL
                       THEN /\ objects' = SubSeq(r.objects, 1, Len(objects))
                            /\ search' = [search EXCEPT
                                             !.frames = WithTop(search.frames,
                                                           AfterSub(f, r.score, search.pruning)),
                                             !.clones = search.clones + 1]
                       ELSE /\ objects' = r.objects
                            /\ search' = [search EXCEPT
                                             !.frames = Append(search.frames, r.frame),
                                             !.clones = search.clones + 1]
    /\ UNCHANGED <<game, copy, currentPlayer, last, aiMove, calls>>
    /\ UNCHANGED page

\* the search after the innermost call f returned: the pass of its caller is
\* completed with f's value; cut tells that the break left moves unsearched
Resumed(s, f, cut) ==
    IF Len(s.frames) = 1
    THEN [RootAfterSub(s, f.best) EXCEPT !.cuts = s.cuts + cut]
    ELSE [s EXCEPT !.frames = WithTop(SubSeq(s.frames, 1, Len(s.frames) - 1),
                                      AfterSub(s.frames[Len(s.frames) - 1], f.best,
                                               s.pruning)),
                   !.cuts = s.cuts + cut]

\* minimax: return maxEval / return minEval, after the break or the last
\* pass; its state is garbage once the caller's pass is over
Return ==
    /\ search.pc = "search"
    /\ search.frames # <<>>
    /\ \E f \in {search.frames[Len(search.frames)]} :
         /\ f.done \/ f.i > Len(f.topMoves)
         /\ objects' = SubSeq(objects, 1, f.keep)
         /\ search' = Resumed(search, f, IF f.i <= Len(f.topMoves) THEN 1 ELSE 0)
    /\ UNCHANGED <<game, copy, currentPlayer, last, aiMove, calls>>
    /\ UNCHANGED page

\* getMove after its loop: the positions it can return
Selected(s, g) ==
    IF s.bestMove = 0
    THEN fallbackMove(g, getPlayerPoints(g, s.player), getPlayerPoints(g, 1 - s.player))
    ELSE {[x |-> s.topCandidates[s.bestMove].x, y |-> s.topCandidates[s.bestMove].y]}

\* getMove returns: the fallback without a best move, else the best move;
\* ret is how many clones the search made
Finish ==
    /\ search.pc = "search"
    /\ search.frames = <<>>
    /\ search.i > Len(search.topCandidates)
    /\ \E m \in Selected(search, objects[game]) :
           aiMove' = [x |-> ToWorld(m.x), y |-> ToWorld(m.y)]
    /\ search' = [search EXCEPT !.pc = "returned"]
    /\ last' = [NoCall EXCEPT !.op = "getMove", !.via = "game", !.pos = search.player,
                              !.ret = search.clones]
    /\ calls' = calls + 1
    /\ UNCHANGED <<objects, game, copy, currentPlayer>>
    /\ UNCHANGED page

\* the reference: the search of the same game for the same player without
\* the break statements, after the search returned
PlainCall ==
    /\ search.pc = "returned"
    /\ search.pruning
    /\ Started(search.player, FALSE,
               [minimaxResults |-> search.minimaxResults, bestMove |-> search.bestMove,
                cuts |-> search.cuts])

NextSearch ==
    \/ \E player \in Players : SearchCall(player)
    \/ RootPass
    \/ MovePass
    \/ Return
    \/ Finish
    \/ PlainCall

SpecSearch == InitSearch /\ [][NextSearch]_vars

(* ------------------- the click handler with an AI chosen --------------- *)
maxRetries == 5
FALLBACK_ATTEMPTS == 100

\* game.addMove(x, y, 1) at each of the positions: the calls that were
\* accepted, as the game they leave and the stone placed
Placements(g, positions) ==
    {r \in {addMove(g, ToWorld(p.x), ToWorld(p.y), 1) : p \in positions} : r.ret # NULL}

\* game.addMove(x, y, 1) is rejected at one of the positions
SomeRejected(g, positions) ==
    \E p \in positions : addMove(g, ToWorld(p.x), ToWorld(p.y), 1).ret = NULL

\* the random fallback loop: placed are the accepted placements of a random
\* position, missed tells that a random position can be rejected; the loop
\* ends on the first accepted placement, and with nothing placed when each
\* of the FALLBACK_ATTEMPTS attempts was rejected
FallbackLoop(g, placed, missed) ==
    (IF FALLBACK_ATTEMPTS > 0 THEN {[game |-> r.game, ret |-> r.ret] : r \in placed} ELSE {})
        \cup (IF \A attempt \in 0..(FALLBACK_ATTEMPTS - 1) : missed
              THEN {[game |-> g, ret |-> NULL]} ELSE {})

\* the getMove loop from the given attempt on: placed are the accepted
\* placements of a getMove result, missed tells that getMove can return a
\* position addMove rejects, afterwards is what the fallback leaves
RECURSIVE RetryLoop(_, _, _, _)
RetryLoop(attempt, placed, missed, afterwards) ==
    IF attempt >= maxRetries THEN afterwards
    ELSE {[game |-> r.game, ret |-> r.ret] : r \in placed}
            \cup (IF missed THEN RetryLoop(attempt + 1, placed, missed, afterwards) ELSE {})

\* the AI turn of the click handler with ai = new EasyAI(): the games it can
\* leave, each with the stone the AI placed, NULL when it placed none
AiTurnWith(g, moves, random) ==
    RetryLoop(0, Placements(g, moves), SomeRejected(g, moves),
              FallbackLoop(g, Placements(g, random), SomeRejected(g, random)))

AiTurn(g) ==
    AiTurnWith(g, EasyGetMove(g, 1),
               {Offset(target, d) : target \in Range(getPoints(g)), d \in RandomOffsets})

\* the game after mode selection: game = new Game(), currentPlayer = 0
InitEasy ==
    /\ objects = <<NewGame>>
    /\ game = 1
    /\ copy = 0
    /\ currentPlayer = 0
    /\ last = NoCall
    /\ aiMove = NULL
    /\ calls = 0
    /\ InitShell

\* the canvas click handler with ai = new EasyAI(), run to its end: the
\* human move, and the AI turn when the move was accepted and left the game
\* ongoing; last.op tells whether the AI turn was taken and aiMove holds the
\* stone it placed
ClickEasy(pos) ==
    /\ calls < MaxCalls
    /\ \E r \in {addMove(objects[game], pos.x, pos.y, currentPlayer)} :
          IF r.ret # NULL /\ PlayerAfter(r.ret, currentPlayer) = 1
             /\ getState(r.game) = ONGOING
          THEN \E t \in AiTurn(r.game) :
                   /\ objects' = [objects EXCEPT ![game] = t.game]
                   /\ aiMove' = t.ret
                   /\ currentPlayer' = 0
                   /\ last' = [op |-> "aiTurn", via |-> "game", pos |-> pos, ret |-> r.ret,
                               log |-> r.log,
                               valid |-> isValidMove(objects[game], pos.x, pos.y)]
          ELSE /\ objects' = [objects EXCEPT ![game] = r.game]
               /\ aiMove' = NULL
               /\ currentPlayer' = PlayerAfter(r.ret, currentPlayer)
               /\ last' = [op |-> "click", via |-> "game", pos |-> pos, ret |-> r.ret,
                           log |-> r.log,
                           valid |-> isValidMove(objects[game], pos.x, pos.y)]
    /\ calls' = calls + 1
    /\ UNCHANGED <<game, copy>>
    /\ UNCHANGED shell

NextEasy == \E pos \in Positions : ClickEasy(pos)

SpecEasy == InitEasy /\ [][NextEasy]_vars

(* ------------------------------- claims -------------------------------- *)
\* the Game object index.ts plays on
TheGame == objects[game]

\* C1: after any sequence of addMove calls mixing stones of both players,
\* every two distinct stones of getPoints() are at Euclidean distance
\* >= 2 * SYMBOL_RADIUS from each other, whoever owns them (refuted for the
\* addMove of src/game.ts under SpecOfFirst, which tests nearest[0] alone)
C1_NoOverlap ==
    \A r \in DOMAIN objects :
        LET points == getPoints(objects[r])
        IN  \A i, j \in 1..Len(points) :
                i < j => BigLeq(WorldDist(2 * SYMBOL_RADIUS),
                                distance(points[i], points[j]))

\* C2: once the state is WIN_0 or WIN_1 it never changes again: every later
\* addMove call returns null and leaves the point list, both indexes, both
\* line-group collections, the state and the winning pair as they were
C2_Absorbing ==
    [][getState(TheGame) # ONGOING
         => (objects'[game] = objects[game] /\ last'.ret = NULL)]_vars

\* C2: a call was made on a won game
C2_Witness ==
    /\ getState(TheGame) \in {WIN_0, WIN_1}
    /\ last.log = LOG_ENDED

\* C3: in every reachable game state isValidMove(x, y) is true exactly when
\* the addMove(x, y, player) that follows on the unchanged state is accepted,
\* for either player; so it is false everywhere once the game is terminal
C3_ValidIffAccepted ==
    last.op # "none" => (last.valid <=> last.ret # NULL)

\* C3: isValidMove answered true and the move that followed was accepted, on
\* a board where the nearest stone is exactly MAX_PLACEMENT_DISTANCE away
C3_Witness ==
    /\ last.op = "addMove"
    /\ last.valid
    /\ last.ret # NULL
    /\ \E k \in 1..Len(getPoints(TheGame)) :
           distance(getPoints(TheGame)[k], last.ret) = WorldDist(MAX_PLACEMENT_DISTANCE)
    /\ \A k \in 1..Len(getPoints(TheGame)) :
           getPoints(TheGame)[k] = last.ret
           \/ BigLeq(WorldDist(MAX_PLACEMENT_DISTANCE),
                     distance(getPoints(TheGame)[k], last.ret))

\* the Game object a clone() call returned
TheCopy == objects[copy]

\* C4: clone() yields a game whose getPoints() has the same stones in the
\* same order, the same state and the same winning pair as the original:
\* the replay on a fresh Game accepts every recorded move
C4_CloneFidelity ==
    last.op = "clone" =>
        /\ getPoints(TheCopy) = getPoints(TheGame)
        /\ getState(TheCopy) = getState(TheGame)
        /\ getWinPoints(TheCopy) = getWinPoints(TheGame)

\* C4: a won game with stones of both players was cloned
C4_Witness ==
    /\ last.op = "clone"
    /\ getState(TheGame) = WIN_1
    /\ Len(getPlayerPoints(TheCopy, 0)) > 0
    /\ Len(getPlayerPoints(TheCopy, 1)) >= 5

\* C5: a clone shares no mutable state with its original: an addMove call
\* on the clone leaves the original unchanged, and an addMove call on the
\* original leaves the clone unchanged
C5_Independent ==
    [][(copy # 0 /\ last'.op = "addMove")
         => /\ last'.via = "copy" => objects'[game] = objects[game]
            /\ last'.via = "game" => objects'[copy] = objects[copy]]_vars

\* C5: a move was accepted on a clone
C5_Witness ==
    /\ copy # 0
    /\ last.op = "addMove"
    /\ last.via = "copy"
    /\ last.ret # NULL
    /\ getPoints(TheCopy) # getPoints(TheGame)

\* the steps of exactly IDEAL_SPACING world units between whole positions
RunSteps ==
    {d \in (-IDEAL_SPACING..IDEAL_SPACING) \X (-IDEAL_SPACING..IDEAL_SPACING) :
        d[1] * d[1] + d[2] * d[2] = IDEAL_SPACING * IDEAL_SPACING}

\* the stone p is one of 5 stones of its player in a straight run, each
\* exactly IDEAL_SPACING from the next
InFiveRun(g, p) ==
    \E d \in RunSteps, k \in 0..4 :
        \A j \in 0..4 :
            [x |-> p.x + (j - k) * d[1] * SCALE,
             y |-> p.y + (j - k) * d[2] * SCALE,
             player |-> p.player] \in Range(getPoints(g))

\* C6: whenever a player's accepted move completes a straight run of 5 of
\* their own stones, exactly collinear and exactly IDEAL_SPACING apart, the
\* state becomes Won for that player on that move, whatever else is on the
\* board
C6_FiveRunWins ==
    (last.op \in {"addMove", "click"} /\ last.ret # NULL /\ InFiveRun(TheGame, last.ret))
        => getState(TheGame) = (IF last.ret.player = 0 THEN WIN_0 ELSE WIN_1)

\* b follows a along dir, no further than WIN_D_MAX
NextAlong(origin, dir, a, b) ==
    /\ BigLess(Dot(origin, a, dir), Dot(origin, b, dir))
    /\ GapWithin(WideSub(Dot(origin, b, dir), Dot(origin, a, dir)), dir)

\* 5 of the stones lie within PERPENDICULAR_TOLERANCE of the line through
\* origin along dir, each no further than WIN_D_MAX from the next
FiveAlong(stones, origin, dir) ==
    LET A == {s \in stones : PerpWithin(origin, s, dir)}
    IN  \E a \in A : \E b \in A : NextAlong(origin, dir, a, b)
          /\ \E c \in A : NextAlong(origin, dir, b, c)
          /\ \E d \in A : NextAlong(origin, dir, c, d)
          /\ \E e \in A : NextAlong(origin, dir, d, e)

\* player p owns at least 5 stones, 5 of them along one line through the
\* last placed stone
HasWinningLine(g, p) ==
    LET own == Range(getPlayerPoints(g, p))
        lastPoint == getPoints(g)[Len(getPoints(g))]
    IN  /\ Cardinality(own) >= 5
        /\ lastPoint \in own
        /\ \E q \in own \ {lastPoint} :
               FiveAlong(own, lastPoint,
                         Primitive(q.x - lastPoint.x, q.y - lastPoint.y))

\* C7: the state is WIN_p only if player p owns at least 5 stones of which 5
\* lie within PERPENDICULAR_TOLERANCE of one line through the last placed
\* stone with consecutive projected gaps all <= WIN_D_MAX; a player with four
\* or fewer stones has never won
C7_WinOnlyWithFive ==
    /\ getState(TheGame) = WIN_0 => HasWinningLine(TheGame, 0)
    /\ getState(TheGame) = WIN_1 => HasWinningLine(TheGame, 1)

\* C7: a fifth stone in the middle of a run has just won the game
C7_Witness ==
    /\ getState(TheGame) = WIN_1
    /\ last.ret = [x |-> 50 * SCALE, y |-> 0, player |-> 1]

\* the last call was an addMove, direct or from the click handler
MoveCalled(l) == l.op \in {"addMove", "click"}

\* C8: a rejected move changes nothing: when addMove returns null the point
\* list, indexes, line groups, state and winning pair are unchanged, and in
\* the click handler the player to move is unchanged
C8_RejectedChangesNothing ==
    [][(calls' # calls /\ MoveCalled(last') /\ last'.ret = NULL)
         => (objects' = objects /\ currentPlayer' = currentPlayer)]_vars

\* C8: with one stone at (0, 0) on the board, a click at (5, 0) was rejected
\* and the turn stayed with the second player
C8_Witness ==
    /\ last.op = "click"
    /\ last.pos = [x |-> World(5), y |-> World(0)]
    /\ last.ret = NULL
    /\ getPoints(TheGame) = <<[x |-> 0, y |-> 0, player |-> 0]>>
    /\ currentPlayer = 1

\* the point addMove makes of a position
Rounded(pos) == [x |-> Quantize(pos.x), y |-> Quantize(pos.y)]

\* C9 as claimed: the values addMove returns for a move rejected as too
\* close, as too far and on a terminal game are three different results;
\* two rejections in a row for different causes returned different values
C9_DistinctResults ==
    [][(calls' # calls /\ MoveCalled(last) /\ MoveCalled(last')
          /\ last.log # LOG_NONE /\ last'.log # LOG_NONE /\ last'.log # last.log)
         => last'.ret # last.ret]_vars

\* C9 amended: every rejection returns the same null; the cause shows only
\* in the message logged, which is a different one for each cause: game
\* already ended, a stone closer than 2 * SYMBOL_RADIUS, or no stone within
\* MAX_PLACEMENT_DISTANCE
C9_NullAndMessage ==
    MoveCalled(last) =>
        LET g == objects[Deref(last.via)]
            p == Rounded(last.pos)
            stones == Range(getPoints(g)) \ (IF last.ret = NULL THEN {} ELSE {last.ret})
            close == \E s \in stones : BigLess(distance(s, p), WorldDist(2 * SYMBOL_RADIUS))
            far == stones # {} /\ \A s \in stones :
                       BigLess(WorldDist(MAX_PLACEMENT_DISTANCE), distance(s, p))
        IN  /\ last.ret = NULL <=> last.log # LOG_NONE
            /\ last.log = LOG_ENDED => getState(g) # ONGOING
            /\ last.log = LOG_CLOSE <=> (last.ret = NULL /\ getState(g) = ONGOING /\ close)
            /\ last.log = LOG_FAR <=> (last.ret = NULL /\ getState(g) = ONGOING /\ far)
            /\ Cardinality({LOG_ENDED, LOG_CLOSE, LOG_FAR, LOG_NONE}) = 4

\* C9: a move was rejected as too far from every stone
C9_Witness ==
    /\ MoveCalled(last)
    /\ last.ret = NULL
    /\ last.log = LOG_FAR
    /\ Len(getPoints(TheGame)) >= 2

\* C10: in every ongoing game state the position an AI's getMove(game,
\* player) returns satisfies game.isValidMove(x, y) at the moment it is
\* returned
C10_AIMoveValid ==
    last.op = "getMove" => isValidMove(TheGame, aiMove.x, aiMove.y)

\* C15: every stone accepted on a board that already holds a stone has, at
\* the moment it is placed, a stone of either player within
\* MAX_PLACEMENT_DISTANCE; a move farther than that from every stone is
\* rejected
C15_Connected ==
    [][(calls' # calls /\ MoveCalled(last') /\ last'.ret # NULL
          /\ getPoints(objects[game]) # <<>>)
         => \E s \in Range(getPoints(objects[game])) :
                BigLeq(distance(s, last'.ret), WorldDist(MAX_PLACEMENT_DISTANCE))]_vars

\* C15: a stone was accepted at (135, 0), exactly MAX_PLACEMENT_DISTANCE from
\* the nearest stone (75, 0)
C15_Witness ==
    /\ MoveCalled(last)
    /\ last.ret # NULL
    /\ last.ret.x = 135 * SCALE /\ last.ret.y = 0
    /\ \E s \in Range(getPoints(TheGame)) : s.x = 75 * SCALE /\ s.y = 0
    /\ \A s \in Range(getPoints(TheGame)) \ {last.ret} :
           BigLeq(WorldDist(MAX_PLACEMENT_DISTANCE), distance(s, last.ret))

\* C16: addMove accepts a position exactly when the game is ongoing and
\* either the board is empty or the distance d from the rounded position to
\* the nearest stone of either player has 2 * SYMBOL_RADIUS <= d <=
\* MAX_PLACEMENT_DISTANCE, both bounds included
C16_AcceptedIff ==
    [][(calls' # calls /\ MoveCalled(last'))
         => LET g == objects[game]
                p == Rounded(last'.pos)
                stones == Range(getPoints(g))
            IN  last'.ret # NULL <=>
                    /\ getState(g) = ONGOING
                    /\ \/ stones = {}
                       \/ /\ \A s \in stones :
                                 BigLeq(WorldDist(2 * SYMBOL_RADIUS), distance(s, p))
                          /\ \E s \in stones :
                                 BigLeq(distance(s, p), WorldDist(MAX_PLACEMENT_DISTANCE))]_vars

\* C16: player 0 was accepted at (120, 0), exactly 2 * SYMBOL_RADIUS from its
\* nearest stone (100, 0), which is player 1's
C16_Witness ==
    /\ MoveCalled(last)
    /\ last.ret = [x |-> 120 * SCALE, y |-> 0, player |-> 0]
    /\ [x |-> 100 * SCALE, y |-> 0, player |-> 1] \in Range(getPoints(TheGame))

\* the stones within PERPENDICULAR_TOLERANCE of the line through origin
\* along dir
AlignedSet(stones, origin, dir) == {s \in stones : PerpWithin(origin, s, dir)}

\* the stone of A with the smallest projection, and the one with the largest
FirstAlong(A, origin, dir) ==
    CHOOSE a \in A : \A b \in A : BigLeq(Dot(origin, a, dir), Dot(origin, b, dir))
LastAlong(A, origin, dir) ==
    CHOOSE a \in A : \A b \in A : BigLeq(Dot(origin, b, dir), Dot(origin, a, dir))

\* player 0's stones were placed in order at (0,0), (25,0), (50,0), (75,0),
\* (100,0), the last one by the call just made
FiveInARow ==
    /\ MoveCalled(last)
    /\ last.ret # NULL
    /\ getPoints(TheGame) = [k \in 1..5 |-> [x |-> (k - 1) * IDEAL_SPACING * SCALE,
                                             y |-> 0, player |-> 0]]

\* C19 as claimed: when a move wins, the recorded pair is made of the two
\* end stones of the whole aligned set of the winning direction, and for
\* player-0 stones placed in order at (0,0), (25,0), (50,0), (75,0), (100,0)
\* getWinPoints() is the pair [(0,0), (100,0)]
C19_PairAsClaimed ==
    /\ (MoveCalled(last) /\ last.ret # NULL /\ getState(TheGame) # ONGOING) =>
           LET p == last.ret
               own == Range(getPlayerPoints(TheGame, p.player))
           IN  \E q \in own \ {p} :
                   LET dir == Primitive(q.x - p.x, q.y - p.y)
                       A == AlignedSet(own, p, dir)
                   IN  /\ FiveAlong(own, p, dir)
                       /\ Range(getWinPoints(TheGame))
                            = {FirstAlong(A, p, dir), LastAlong(A, p, dir)}
    /\ FiveInARow =>
           getWinPoints(TheGame) = <<[x |-> 0, y |-> 0, player |-> 0],
                                     [x |-> 100 * SCALE, y |-> 0, player |-> 0]>>

\* C19 amended: when a move wins, the recorded winning pair is the first and
\* the last stone of the whole set of the mover's stones aligned with the
\* winning direction, in the order of their projections on the direction
\* that points from the new stone to one of its neighbours; for (0,0),
\* (25,0), (50,0), (75,0), (100,0) placed in this order it is
\* [(100,0), (0,0)]
C19_WinningPair ==
    /\ (MoveCalled(last) /\ last.ret # NULL /\ getState(TheGame) # ONGOING) =>
           LET p == last.ret
               own == Range(getPlayerPoints(TheGame, p.player))
           IN  \E q \in own \ {p} :
                   LET dir == Primitive(q.x - p.x, q.y - p.y)
                       A == AlignedSet(own, p, dir)
                   IN  /\ FiveAlong(own, p, dir)
                       /\ getWinPoints(TheGame)
                            = <<FirstAlong(A, p, dir), LastAlong(A, p, dir)>>
    /\ FiveInARow =>
           getWinPoints(TheGame) = <<[x |-> 100 * SCALE, y |-> 0, player |-> 0],
                                     [x |-> 0, y |-> 0, player |-> 0]>>

\* C19: player 0 won by placing (100, 0) after (0,0), (25,0), (50,0), (75,0)
C19_Witness ==
    /\ FiveInARow
    /\ getState(TheGame) = WIN_0
    /\ Len(getWinPoints(TheGame)) = 2

\* C20: within one win check the direction buckets are undirected: of two
\* opposite directions from the new stone only the first met is tested, so
\* no line through the new stone is tested twice in one call
C20_UndirectedBuckets ==
    (MoveCalled(last) /\ last.ret # NULL) =>
        LET tested == checkWin(TheGame, last.ret).tested
        IN  \A i, j \in 1..Len(tested) :
                i < j => tested[j] # <<-tested[i][1], -tested[i][2]>>

\* the sequence s back to front
Reversed(s) == [k \in 1..Len(s) |-> s[Len(s) + 1 - k]]

\* the game in which the stones of g were placed in the opposite order
PlacedBackwards(g) == Replay(Reversed(getPoints(g)), 1, NewGame)

\* the member sets of player p's line groups
MemberSets(g, p) ==
    {getLineGroups(g, p)[k].stones : k \in 1..Len(getLineGroups(g, p))}

\* C17: a player's line-group collection depends only on that player's set
\* of stones: a game in which the same stones were placed in another order
\* holds the same number of groups for the player, with the same member sets
C17_OrderIndependent ==
    \A p \in Players :
        (/\ MoveCalled(last) /\ last.ret # NULL
         /\ Range(getPoints(PlacedBackwards(TheGame))) = Range(getPoints(TheGame)))
            => /\ Len(getLineGroups(PlacedBackwards(TheGame), p))
                    = Len(getLineGroups(TheGame, p))
               /\ MemberSets(PlacedBackwards(TheGame), p) = MemberSets(TheGame, p)

\* C18: after accepted moves a player's line-group collection holds no
\* duplicates: no two of its groups have the same member stones along the
\* same direction
C18_NoDuplicateGroups ==
    \A p \in Players :
      (MoveCalled(last) /\ last.ret # NULL /\ last.ret.player = p) =>
        \A i, j \in 1..Len(getLineGroups(TheGame, p)) :
            i < j => ~ /\ getLineGroups(TheGame, p)[i].stones
                            = getLineGroups(TheGame, p)[j].stones
                       /\ getLineGroups(TheGame, p)[i].dir
                            = getLineGroups(TheGame, p)[j].dir

\* the stones contain a run of n stones from a on along dir, each no further
\* than WIN_D_MAX from the next
RECURSIVE RunFrom(_, _, _, _, _)
RunFrom(stones, origin, dir, a, n) ==
    \/ n <= 1
    \/ \E b \in stones : NextAlong(origin, dir, a, b) /\ RunFrom(stones, origin, dir, b, n - 1)

\* the longest run of the group is exactly n stones
LongestRunIs(group, n) ==
    LET o == [x |-> group.originX, y |-> group.originY]
    IN  /\ \E a \in group.stones : RunFrom(group.stones, o, group.dir, a, n)
        /\ ~\E a \in group.stones : RunFrom(group.stones, o, group.dir, a, n + 1)

\* the two points IDEAL_SPACING beyond the end stones of a group that runs
\* along an axis
OutwardPoints(group) ==
    LET o == [x |-> group.originX, y |-> group.originY]
        first == FirstAlong(group.stones, o, group.dir)
        final == LastAlong(group.stones, o, group.dir)
    IN  { [x |-> first.x - IDEAL_SPACING * SCALE * group.dir[1],
           y |-> first.y - IDEAL_SPACING * SCALE * group.dir[2]],
          [x |-> final.x + IDEAL_SPACING * SCALE * group.dir[1],
           y |-> final.y + IDEAL_SPACING * SCALE * group.dir[2]] }

\* a stone may be placed at pt: the game is ongoing, no stone is closer than
\* 2 * SYMBOL_RADIUS and some stone is within MAX_PLACEMENT_DISTANCE
LegalAt(g, pt) ==
    /\ getState(g) = ONGOING
    /\ \A s \in Range(getPoints(g)) : BigLeq(WorldDist(2 * SYMBOL_RADIUS), distance(s, pt))
    /\ \E s \in Range(getPoints(g)) : BigLeq(distance(s, pt), WorldDist(MAX_PLACEMENT_DISTANCE))

\* the line groups of both players in g
AllGroups(g) == Range(getLineGroups(g, 0)) \cup Range(getLineGroups(g, 1))

\* the number of outward points of the group where a stone may be placed
OpenOutward(g, group) == Cardinality({pt \in OutwardPoints(group) : LegalAt(g, pt)})

\* C13: for a line group whose longest run is 4, lineScore is 0 when neither
\* outward extension point is a valid move, lineWeight4 when exactly one is
\* and lineWeight4 * openFactor when both are, so that an open-ended four
\* scores strictly more than a dead one
C13_FourScore ==
    last.op = "evaluate" =>
        \A group \in AllGroups(TheGame) :
            (LongestRunIs(group, 4) /\ (group.dir[1] = 0 \/ group.dir[2] = 0)) =>
                /\ OpenOutward(TheGame, group) = 0 => lineScore(group, TheGame) = 0
                /\ OpenOutward(TheGame, group) = 1 => lineScore(group, TheGame) = lineWeight4
                /\ OpenOutward(TheGame, group) = 2
                       => lineScore(group, TheGame) = lineWeight4 * openFactor
                /\ OpenOutward(TheGame, group) > 0 => lineScore(group, TheGame) > 0

\* C13: evaluate has scored a game with a four open at both ends
C13_Witness ==
    /\ last.op = "evaluate"
    /\ \E group \in AllGroups(TheGame) :
           /\ LongestRunIs(group, 4)
           /\ OpenOutward(TheGame, group) = 2
           /\ lineScore(group, TheGame) = lineWeight4 * openFactor

C11_AiTurnPlacesOne ==
    [][(calls' # calls /\ last'.op = "aiTurn")
          => /\ currentPlayer' = 0
             /\ Len(getPlayerPoints(objects'[game], 1))
                    = Len(getPlayerPoints(objects[game], 1)) + 1
             /\ aiMove' # NULL]_vars

\* C14: a call getMove(game, player) of the MediumAI leaves the game it is
\* given as it was: throughout the search and after the call returned, the
\* point list, the state, the winning pair and the line groups of both
\* players are those the game had when the call was made, every move of the
\* search having been tried on a clone
C14_GetMoveKeepsGame ==
    (search.pc # "idle" /\ search.pruning)
        => /\ getPoints(objects[game]) = getPoints(search.given)
           /\ getState(objects[game]) = getState(search.given)
           /\ getWinPoints(objects[game]) = getWinPoints(search.given)
           /\ getLineGroups(objects[game], 0) = getLineGroups(search.given, 0)
           /\ getLineGroups(objects[game], 1) = getLineGroups(search.given, 1)
           /\ (search.pc = "returned" => Len(objects) = 1)

\* C14: getMove has searched, trying moves on clones, and returned a move
C14_Witness ==
    /\ search.pc = "returned"
    /\ search.pruning
    /\ last.op = "getMove"
    /\ last.ret > maxCandidates
    /\ aiMove # NULL
    /\ isValidMove(TheGame, aiMove.x, aiMove.y)

\* C27: for every root candidate the value minimax returns with the breaks
\* equals the value it returns without them, the trees being the same: the
\* search without the breaks values each root candidate as the search with
\* them did, and once it has returned it has valued the same candidates and
\* its best move is the same candidate
C27_PruningKeepsValues ==
    (search.pc # "idle" /\ ~search.pruning)
        => /\ Len(search.minimaxResults) <= Len(search.pruned.minimaxResults)
           /\ \A k \in 1..Len(search.minimaxResults) :
                  search.minimaxResults[k] = search.pruned.minimaxResults[k]
           /\ search.pc = "returned"
                  => /\ search.minimaxResults = search.pruned.minimaxResults
                     /\ search.bestMove = search.pruned.bestMove

\* C27: both searches returned, the first having left moves unsearched at a
\* break, with several root candidates valued and a best move
C27_Witness ==
    /\ search.pc = "returned"
    /\ ~search.pruning
    /\ search.pruned.cuts > 0
    /\ Len(search.minimaxResults) > 1
    /\ search.bestMove # 0

\* C25: the stones checkWin gathers around an accepted stone p, the
\* neighbours of the win check, are all within WIN_SEARCH_RADIUS scaled units
\* (175 world units) of p
C25_NearbyWithinRadius ==
    (last.op = "addMove" /\ last.ret # NULL)
        => \A k \in 1..Len(WinNearby(TheGame, last.ret)) :
               BigLeq(distance(WinNearby(TheGame, last.ret)[k].obj, last.ret),
                      Sq(WIN_SEARCH_RADIUS))

(* ------------------------- line group invariants ----------------------- *)
\* the properties of one stored group of player p in game g
GroupWellFormed(g, p, group) ==
    /\ Cardinality(group.stones) >= 2
    /\ \A s \in group.stones : s.player = p /\ s \in Range(getPoints(g))
    /\ Len(group.projections) = Cardinality(group.stones)
    /\ group.projections[1] = <<0, 0>>
    /\ \A k \in 1..(Len(group.projections) - 1) :
           /\ WideSub(group.projections[k + 1], group.projections[k])[1] >= 0
           /\ GapWithin(WideSub(group.projections[k + 1], group.projections[k]),
                        group.dir)
    /\ RunLoop(group.projections, group.dir, 1, 1, 1) = Cardinality(group.stones)

\* C23: every stored line group has at least 2 member stones, all owned by
\* the group's player and all in the point list; its projection list has one
\* entry per member, is sorted ascending, starts at 0, and has every
\* consecutive gap <= WIN_D_MAX, so the longest run lineScore computes for the
\* group equals the group's size
C23_GroupsWellFormed ==
    \A p \in Players :
        \A k \in 1..Len(getLineGroups(TheGame, p)) :
            GroupWellFormed(TheGame, p, getLineGroups(TheGame, p)[k])

\* a group of three stones or more was stored by an accepted move
C23_Witness ==
    /\ MoveCalled(last) /\ last.ret # NULL
    /\ \E k \in 1..Len(getLineGroups(TheGame, last.ret.player)) :
           /\ Cardinality(getLineGroups(TheGame, last.ret.player)[k].stones) >= 3
           /\ last.ret \in getLineGroups(TheGame, last.ret.player)[k].stones

(* --------------------------- one win check ----------------------------- *)
\* C24: an accepted addMove by player p runs one win check, for the stone just
\* placed: the state afterwards is WIN_p exactly when checkWin of that stone
\* on the updated game answers true and is the state before otherwise, never
\* the win state of the other player; a rejected addMove leaves the state as
\* it was
C24_OneWinCheck ==
    [][(calls' # calls /\ MoveCalled(last'))
         => IF last'.ret = NULL
            THEN getState(objects'[game]) = getState(objects[game])
            ELSE /\ getState(objects[game]) = ONGOING
                 /\ \E placed \in {Inserted(objects[game], last'.ret)} :
                    \E updated \in {updateLineGroups(placed, last'.ret.player)} :
                        getState(objects'[game]) =
                            IF checkWin(updated, last'.ret).win
                            THEN (IF last'.ret.player = 0 THEN WIN_0 ELSE WIN_1)
                            ELSE ONGOING]_vars

\* an accepted move won the game for its player
C24_Witness ==
    /\ MoveCalled(last) /\ last.ret # NULL
    /\ getState(TheGame) = (IF last.ret.player = 0 THEN WIN_0 ELSE WIN_1)

(* ----------------------------- winning pair ---------------------------- *)
\* C26: getWinPoints() is empty while the state is ONGOING and holds two
\* stones once the state is WIN_p, both owned by p and both in getPoints()
C26_WinPointsDefined ==
    IF getState(TheGame) = ONGOING
    THEN getWinPoints(TheGame) = <<>>
    ELSE /\ Len(getWinPoints(TheGame)) = 2
         /\ \A k \in 1..2 :
                /\ getWinPoints(TheGame)[k].player
                       = (IF getState(TheGame) = WIN_0 THEN 0 ELSE 1)
                /\ getWinPoints(TheGame)[k] \in Range(getPoints(TheGame))

\* a game was won and its winning pair is two different stones
C26_Witness ==
    /\ getState(TheGame) # ONGOING
    /\ Len(getWinPoints(TheGame)) = 2
    /\ getWinPoints(TheGame)[1] # getWinPoints(TheGame)[2]

(* ------------------- MediumAI: the candidates of a game ---------------- *)
\* games with line groups of both players that share extension points
CandidateOpenings ==
    { <<<<0, 0, 0>>, <<25, 0, 0>>, <<50, 25, 0>>, <<50, 50, 0>>, <<50, 75, 0>>>>,
      <<<<50, 25, 0>>, <<50, 50, 0>>, <<50, 75, 0>>, <<0, 0, 0>>, <<25, 0, 0>>>>,
      <<<<0, 0, 0>>, <<25, 0, 0>>, <<-25, 0, 0>>, <<50, 25, 1>>, <<50, 50, 1>>>>,
      <<<<0, 0, 0>>, <<25, 0, 0>>, <<0, 25, 0>>, <<25, 25, 0>>, <<80, 0, 1>>,
        <<105, 0, 1>>>>,
      <<<<0, 0, 0>>, <<25, 0, 1>>>>,
      <<<<0, 0, 0>>>> }

CandidatePositions ==
    { [x |-> World(50), y |-> World(0)],
      [x |-> World(50), y |-> World(100)],
      [x |-> World(-25), y |-> World(0)],
      [x |-> World(0), y |-> World(50)],
      [x |-> World(130), y |-> World(0)],
      [x |-> World(400), y |-> World(400)] }

InitCandidates ==
    /\ objects \in {<<Play(m, 1, NewGame)>> : m \in CandidateOpenings}
    /\ game = 1
    /\ copy = 0
    /\ currentPlayer = 0
    /\ last = NoCall
    /\ aiMove = NULL
    /\ calls = 0
    /\ InitShell

\* a call generateCandidates(game, player) made by the search; pos is the
\* player and ret the list returned
GenerateCall(player) ==
    /\ calls < MaxCalls
    /\ last' = [NoCall EXCEPT !.op = "generateCandidates", !.via = "game",
                              !.pos = player,
                              !.ret = generateCandidates(objects[game], player)]
    /\ calls' = calls + 1
    /\ UNCHANGED <<objects, game, copy, currentPlayer, aiMove>>
    /\ UNCHANGED shell

NextCandidates ==
    \/ \E player \in Players : GenerateCall(player)
    \/ \E pos \in CandidatePositions, player \in Players : AddMoveCall("game", pos, player)

SpecCandidates == InitCandidates /\ [][NextCandidates]_vars

\* the proposals the groups make: reason and size by the group
GroupProposals(groups, blocking) ==
    { [x |-> ExtensionPoints(groups[i])[k].x, y |-> ExtensionPoints(groups[i])[k].y,
       reason |-> IF ~blocking THEN OFFENSIVE_EXTENSION
                  ELSE IF Cardinality(groups[i].stones) >= 4 THEN CRITICAL_BLOCK
                  ELSE DEFENSIVE_BLOCK,
       threatSize |-> Cardinality(groups[i].stones)] :
          i \in {j \in 1..Len(groups) : Cardinality(groups[j].stones) >= 2}, k \in 1..2 }

\* the exploratory positions around the stones of the player
NeighborPositions(playerPoints) ==
    { [x |-> Neighbor(playerPoints[i], k).x, y |-> Neighbor(playerPoints[i], k).y] :
          i \in 1..Len(playerPoints), k \in 1..Len(TacticalOffsets) }

\* every proposal generateCandidates(g, player) makes: own-line extensions,
\* opponent-line blocks and, when they run, exploratory points
Proposals(g, player) ==
    GroupProposals(getLineGroups(g, player), FALSE)
        \cup GroupProposals(getLineGroups(g, 1 - player), TRUE)
        \cup (IF Len(Queued(g, player)) < maxCandidates
              THEN { [x |-> n.x, y |-> n.y, reason |-> NEARBY_RANDOM, threatSize |-> 0] :
                        n \in NeighborPositions(getPlayerPoints(g, player)) }
              ELSE {})

GenerateCalled == last.op = "generateCandidates"

\* C21: every candidate generateCandidates returns carries the
\* highest-priority reason and the largest threat size among all proposals
\* made at its position
C21_KeepsHighest ==
    GenerateCalled
        => \A k \in 1..Len(last.ret) :
               \A q \in Proposals(TheGame, last.pos) :
                   (q.x = last.ret[k].x /\ q.y = last.ret[k].y)
                       => /\ reasonPriority(last.ret[k].reason) >= reasonPriority(q.reason)
                          /\ last.ret[k].threatSize >= q.threatSize

\* the part of C21 about the reason alone
C21_ReasonHighest ==
    GenerateCalled
        => \A k \in 1..Len(last.ret) :
               \A q \in Proposals(TheGame, last.pos) :
                   (q.x = last.ret[k].x /\ q.y = last.ret[k].y)
                       => reasonPriority(last.ret[k].reason) >= reasonPriority(q.reason)

\* the candidates the exploratory pass added: those returned that were not
\* queued before it
Exploratory(g, player, ret) ==
    {k \in 1..Len(ret) : MapIndex(Queued(g, player), ret[k]) = 0}

\* C22: exploratory candidates are added only when fewer than maxCandidates
\* candidates are queued, are tagged NearbyRandom, and replace no entry
\* queued before at the same position
C22_Exploratory ==
    GenerateCalled
        => /\ (Exploratory(TheGame, last.pos, last.ret) # {}
                  => Len(Queued(TheGame, last.pos)) < maxCandidates)
           /\ \A k \in Exploratory(TheGame, last.pos, last.ret) :
                  last.ret[k].reason = NEARBY_RANDOM
           /\ \A j \in 1..Len(Queued(TheGame, last.pos)) :
                  CandidateMap(TheGame, last.pos)[j] = Queued(TheGame, last.pos)[j]

\* C22 without the tag: the pass runs only below the cap and replaces nothing
C22_CapAndNoReplace ==
    GenerateCalled
        => /\ (Exploratory(TheGame, last.pos, last.ret) # {}
                  => Len(Queued(TheGame, last.pos)) < maxCandidates)
           /\ \A j \in 1..Len(Queued(TheGame, last.pos)) :
                  CandidateMap(TheGame, last.pos)[j] = Queued(TheGame, last.pos)[j]

\* the cap was reached and the exploratory pass skipped
C22_CapReached ==
    GenerateCalled /\ Len(Queued(TheGame, last.pos)) >= maxCandidates

(* ---------------- the click handler and the debug stepper -------------- *)
\* bound of the model: clicks and debug key presses other than KeyN
MaxEvents == 3

\* the debug phases a getMove can leave: none (first move, no candidate, or
\* an AI without getLastDebugPhases) or the four of a search
DebugPhases ==
    << [title |-> "Candidate Generation"], [title |-> "Top Candidates"],
       [title |-> "Minimax Evaluation"], [title |-> "Selected Move"] >>

PhaseLists == {<<>>, DebugPhases}

\* positions the human clicks and positions a getMove returns
HandlerPositions == {[x |-> World(0), y |-> World(0)], [x |-> World(50), y |-> World(0)]}
AiMoves == {[x |-> World(25), y |-> World(0)], [x |-> World(0), y |-> World(0)]}

\* DebugDrawer.stepThroughPhases: the for loop from index i on; it ends up
\* waiting on a new promise (stepResolve set) or past the loop
PhasesFrom(d, phases, i) ==
    IF i < Len(phases) /\ d.enabled
    THEN [d EXCEPT !.phaseIndex = i, !.currentPhase = phases[i + 1], !.stepResolve = TRUE]
    ELSE [d EXCEPT !.currentPhase = NULL, !.phaseQueue = <<>>, !.phaseIndex = -1]

\* DebugDrawer.stepThroughPhases(phases), up to its first await or its return
stepThroughPhases(d, phases) ==
    IF ~d.enabled \/ ~d.showAIPhases \/ Len(phases) = 0 THEN d
    ELSE PhasesFrom([d EXCEPT !.phaseQueue = phases], phases, 0)

\* toggle() that leaves a pending step alone
toggleOnly(d) == [d EXCEPT !.enabled = ~d.enabled]

\* DebugDrawer.toggle(): switching off resolves a pending step
toggle(d) ==
    [d EXCEPT !.enabled = ~d.enabled,
              !.stepResolve = IF d.enabled THEN FALSE ELSE d.stepResolve]

\* DebugDrawer.advance(): resolves a pending step
advance(d) == [d EXCEPT !.stepResolve = FALSE]

\* DebugDrawer.isStepping
isStepping(d) == d.stepResolve

\* the click taken whatever aiThinking is
ClickedUnguarded(thinking, g, pos, mover) == addMove(g, pos.x, pos.y, mover)

\* the click handler up to `if (!move) return`: nothing is called while
\* aiThinking
Clicked(thinking, g, pos, mover) ==
    IF thinking THEN [game |-> g, ret |-> NULL, log |-> LOG_NONE]
    ELSE addMove(g, pos.x, pos.y, mover)

\* the handler from game.addMove(aiMove.x, aiMove.y, 1) on, r being what
\* that call returned: the turn ends with the stone placed, the loop goes to
\* its next getMove, or the random fallback ends the turn
PlacedOr(g, h, r) ==
    IF r.ret # NULL
    THEN {[game |-> r.game, handler |-> Idle, thinking |-> FALSE]}
    ELSE IF h.attempt + 1 < maxRetries
         THEN {[game |-> g,
                handler |-> [h EXCEPT !.pc = "getMove", !.attempt = h.attempt + 1],
                thinking |-> TRUE]}
         ELSE {[game |-> f.game, handler |-> Idle, thinking |-> FALSE] :
                  f \in FallbackLoop(g,
                            Placements(g, {Offset(target, d) :
                                target \in Range(getPoints(g)), d \in RandomOffsets}),
                            SomeRejected(g, {Offset(target, d) :
                                target \in Range(getPoints(g)), d \in RandomOffsets}))}

PlaceOutcomes(g, h) == PlacedOr(g, h, addMove(g, h.move.x, h.move.y, 1))

\* the handler after `await debugDrawer.stepThroughPhases(phases)` was
\* reached with the drawer in d and the handler's locals in h: it waits when
\* a step is pending, else it goes on in the same task
AfterPhases(d, h) ==
    /\ debugDrawer' = d
    /\ IF isStepping(d)
       THEN /\ handler' = [h EXCEPT !.pc = "stepping"]
            /\ UNCHANGED <<objects, currentPlayer, aiThinking>>
       ELSE \E o \in PlaceOutcomes(objects[game], h) :
                /\ objects' = [objects EXCEPT ![game] = o.game]
                /\ handler' = o.handler
                /\ aiThinking' = o.thinking
                /\ currentPlayer' = IF o.thinking THEN currentPlayer ELSE 0

\* a key handler called d.toggle() or d.advance() and left the drawer in d:
\* when that resolved the pending step, stepThroughPhases resumes in the
\* same task, before any other event
AfterKey(d) ==
    IF isStepping(debugDrawer) /\ ~isStepping(d)
    THEN AfterPhases(PhasesFrom(d, handler.phases, d.phaseIndex + 1), handler)
    ELSE /\ debugDrawer' = d
         /\ UNCHANGED <<objects, currentPlayer, aiThinking, handler>>

\* the page after a mode with an AI was chosen
InitHandler ==
    /\ objects = <<NewGame>>
    /\ game = 1
    /\ copy = 0
    /\ currentPlayer = 0
    /\ last = NoCall
    /\ aiMove = NULL
    /\ calls = 0
    /\ InitShell

\* a click on the canvas, ai being set
CanvasClick(pos) ==
    /\ calls < MaxEvents
    /\ \E r \in {Clicked(aiThinking, objects[game], pos, currentPlayer)} :
           /\ objects' = [objects EXCEPT ![game] = r.game]
           /\ last' = [op |-> "click", via |-> "game", pos |-> pos, ret |-> r.ret,
                       log |-> r.log,
                       valid |-> isValidMove(objects[game], pos.x, pos.y)]
           /\ currentPlayer' = PlayerAfter(r.ret, currentPlayer)
           /\ IF r.ret # NULL /\ PlayerAfter(r.ret, currentPlayer) = 1
                 /\ getState(r.game) = ONGOING
              THEN /\ aiThinking' = TRUE
                   /\ handler' = [Idle EXCEPT !.pc = "delay"]
              ELSE UNCHANGED <<aiThinking, handler>>
    /\ calls' = calls + 1
    /\ UNCHANGED <<game, copy, aiMove, debugDrawer, worker, search>>

\* the 300 ms timer of the handler fires
TimerFires ==
    /\ handler.pc = "delay"
    /\ handler' = [handler EXCEPT !.pc = "getMove"]
    /\ last' = [NoCall EXCEPT !.op = "timer"]
    /\ UNCHANGED <<objects, game, copy, currentPlayer, aiMove, calls, aiThinking,
                   debugDrawer, worker, search>>

\* the promise of ai.getMove(game, 1) resolves with move m, the AI having
\* left the debug phases `phases`; the handler runs up to its next wait
GetMoveReturns(m, phases) ==
    /\ handler.pc = "getMove"
    /\ AfterPhases(stepThroughPhases(debugDrawer, phases),
                   [handler EXCEPT !.move = m, !.phases = phases])
    /\ aiMove' = m
    /\ last' = [NoCall EXCEPT !.op = "getMove", !.pos = m]
    /\ UNCHANGED <<game, copy, calls, worker, search>>

\* keydown KeyN: debugDrawer.advance()
KeyN ==
    /\ AfterKey(advance(debugDrawer))
    /\ last' = [NoCall EXCEPT !.op = "KeyN", !.valid = isStepping(debugDrawer)]
    /\ UNCHANGED <<game, copy, aiMove, calls, worker, search>>

\* keydown Backquote: debugDrawer.toggle()
KeyBackquote ==
    /\ calls < MaxEvents
    /\ AfterKey(toggle(debugDrawer))
    /\ last' = [NoCall EXCEPT !.op = "Backquote", !.valid = isStepping(debugDrawer)]
    /\ calls' = calls + 1
    /\ UNCHANGED <<game, copy, aiMove, worker, search>>

\* keydown Digit3: debugDrawer.toggleSetting("showAIPhases") when debug is on
KeyDigit3 ==
    /\ calls < MaxEvents
    /\ debugDrawer' = IF debugDrawer.enabled
                      THEN [debugDrawer EXCEPT !.showAIPhases = ~debugDrawer.showAIPhases]
                      ELSE debugDrawer
    /\ last' = [NoCall EXCEPT !.op = "Digit3"]
    /\ calls' = calls + 1
    /\ UNCHANGED <<objects, game, copy, currentPlayer, aiMove, aiThinking, handler, worker, search>>

NextHandler ==
    \/ \E pos \in HandlerPositions : CanvasClick(pos)
    \/ TimerFires
    \/ \E m \in AiMoves, phases \in PhaseLists : GetMoveReturns(m, phases)
    \/ KeyN
    \/ KeyBackquote
    \/ KeyDigit3

SpecHandler == InitHandler /\ [][NextHandler]_vars

\* C28: while aiThinking is true every click is ignored: it adds no stone,
\* changes neither currentPlayer nor anything of the pending AI turn, and no
\* step taken while the AI turn is in progress adds a stone of player 0
C28_ClicksIgnored ==
    [][aiThinking
         => /\ getPlayerPoints(objects'[game], 0) = getPlayerPoints(objects[game], 0)
            /\ (last'.op = "click" /\ calls' # calls)
                   => /\ last'.ret = NULL
                      /\ UNCHANGED <<objects, currentPlayer, aiThinking, handler,
                                     debugDrawer>>]_vars

\* a click on a position where a stone could go was ignored during the AI
\* turn, while the handler waited on a debug step
C28_Witness ==
    /\ last.op = "click" /\ last.valid /\ last.ret = NULL
    /\ aiThinking /\ handler.pc = "stepping"

\* the event loop runs the timer and the promise continuations, and the
\* user answers a pending debug step with KeyN or by switching debug off
Release == isStepping(debugDrawer) /\ (KeyN \/ KeyBackquote)

\* the promise of getMove resolves
GetMoveResolves == \E m \in AiMoves, phases \in PhaseLists : GetMoveReturns(m, phases)

\* weak fairness of the timer, of the continuation after getMove and of the
\* user's answer to a pending step; for the last two WF_vars(A) is written
\* out as []<>~ENABLED <<A>>_vars \/ []<><<A>>_vars with the guard of A in
\* the place of ENABLED <<A>>_vars
SpecHandlerFair ==
    /\ SpecHandler
    /\ WF_vars(TimerFires)
    /\ ([]<>(handler.pc # "getMove") \/ []<><<GetMoveResolves>>_vars)
    /\ ([]<>(~isStepping(debugDrawer)) \/ []<><<Release>>_vars)

\* stepThroughPhases has completed
Completed(d) == d.currentPhase = NULL /\ ~isStepping(d) /\ d.phaseIndex = -1

\* while a step is pending the phase shown is the one at phaseIndex of the
\* list getMove left, and no phase is shown otherwise
PhaseShown ==
    /\ isStepping(debugDrawer) <=> handler.pc = "stepping"
    /\ IF isStepping(debugDrawer)
       THEN /\ debugDrawer.enabled /\ aiThinking
            /\ debugDrawer.phaseQueue = handler.phases
            /\ debugDrawer.phaseIndex \in 0..(Len(handler.phases) - 1)
            /\ debugDrawer.currentPhase = handler.phases[debugDrawer.phaseIndex + 1]
       ELSE Completed(debugDrawer)

\* advance() on a pending step releases one phase: the next of the list is
\* shown, or the list is over
AdvanceReleasesOne ==
    (isStepping(debugDrawer) /\ last'.op = "KeyN")
        => IF debugDrawer.phaseIndex + 1 < Len(handler.phases)
           THEN /\ isStepping(debugDrawer')
                /\ debugDrawer'.phaseIndex = debugDrawer.phaseIndex + 1
                /\ debugDrawer'.currentPhase = handler.phases[debugDrawer.phaseIndex + 2]
                /\ UNCHANGED <<objects, aiThinking, currentPlayer>>
           ELSE Completed(debugDrawer')

\* switching debug off on a pending step skips the phases that remain
ToggleOffSkips ==
    (isStepping(debugDrawer) /\ last'.op = "Backquote")
        => /\ Completed(debugDrawer')
           /\ ~debugDrawer'.enabled
           /\ handler'.pc # "stepping"

\* when stepThroughPhases completes the handler goes on to place the AI
\* stone: a move addMove accepts is placed and ends the AI turn, a move it
\* rejects leads to the next getMove or to the fallback
ThenPlaces ==
    (isStepping(debugDrawer) /\ ~isStepping(debugDrawer'))
        => IF addMove(objects[game], handler.move.x, handler.move.y, 1).ret # NULL
           THEN /\ objects'[game]
                      = addMove(objects[game], handler.move.x, handler.move.y, 1).game
                /\ ~aiThinking' /\ currentPlayer' = 0 /\ handler' = Idle
           ELSE handler'.pc = "getMove" \/ (~aiThinking' /\ currentPlayer' = 0)

C29_AllAdvanced ==
    /\ last.op = "KeyN" /\ last.valid
    /\ ~aiThinking /\ Len(handler.phases) = 0
    /\ Len(getPlayerPoints(TheGame, 1)) > 0

(* --------------------------- the training worker ----------------------- *)
\* bounds of the model: messages sent to the worker, and setTimeout yields
\* of one match
MaxMessages == 3
MaxYields == 1

\* params and difficulty of a start message
TrainParams ==
    {[batches |-> b, populationSize |-> p, simsPerBatch |-> s] :
        b \in {1, 2}, p \in {1, 2}, s \in {1, 2}}
Difficulties == {"normal", "unknown"}

\* workerCtx.postMessage({type})
Posted(w, type) == [w EXCEPT !.posted = Append(@, type)]

\* the catch of the worker: the run is over with an error message
Thrown(w) == [Posted(w, "error") EXCEPT !.pc = "finished"]

RECURSIVE GenLoop(_), PopLoop(_), SimLoop(_)

\* the loop over sim that starts a match whatever the signal says
SimLoopUnchecked(w) ==
    IF w.sim < w.params.simsPerBatch
    THEN [w EXCEPT !.pc = "match", !.moveNum = 0, !.matches = @ + 1]
    ELSE PopLoop([w EXCEPT !.fitnesses = @ + 1, !.i = @ + 1])

\* runEvolution: the loop over sim, from its test on: the next playMatch is
\* called, or the individual's fitness is pushed and the loop over i goes on
SimLoop(w) ==
    IF w.sim < w.params.simsPerBatch /\ ~w.aborted
    THEN [w EXCEPT !.pc = "match", !.moveNum = 0, !.matches = @ + 1]
    ELSE PopLoop([w EXCEPT !.fitnesses = @ + 1, !.i = @ + 1])

\* runEvolution: the end of a generation: indexed[0].fit is read, which
\* throws when no fitness was pushed, and onProgress is called
EndOfGeneration(w) ==
    IF w.fitnesses = 0 THEN Thrown(w)
    ELSE GenLoop([Posted(w, "progress") EXCEPT !.gen = @ + 1])

\* runEvolution: the loop over the population, from its test on
PopLoop(w) ==
    IF w.i < w.params.populationSize /\ ~w.aborted
    THEN SimLoop([w EXCEPT !.sim = 0])
    ELSE EndOfGeneration(w)

\* runEvolution: the loop over generations, from its test on; past it the
\* function returns and the worker posts done
GenLoop(w) ==
    IF w.gen < w.params.batches /\ ~w.aborted
    THEN PopLoop([w EXCEPT !.i = 0, !.fitnesses = 0])
    ELSE [Posted(w, "done") EXCEPT !.pc = "finished"]

\* runEvolution(params, difficulty, ..., signal) up to its first await
runEvolution(w, params, difficulty) ==
    IF difficulty = "unknown" THEN Thrown(w)
    ELSE GenLoop([w EXCEPT !.params = params, !.gen = 0])

InitWorker ==
    /\ objects = <<NewGame>>
    /\ game = 1
    /\ copy = 0
    /\ currentPlayer = 0
    /\ last = NoCall
    /\ aiMove = NULL
    /\ calls = 0
    /\ InitShell

\* the worker receives {type: "start"}; the page creates a worker for each
\* start, so a worker receives one
StartMessage(params, difficulty) ==
    /\ calls < MaxMessages
    /\ worker.pc = "loaded"
    /\ worker' = runEvolution([worker EXCEPT !.controller = TRUE, !.aborted = FALSE],
                              params, difficulty)
    /\ calls' = calls + 1
    /\ last' = [NoCall EXCEPT !.op = "start"]
    /\ UNCHANGED <<objects, game, copy, currentPlayer, aiMove, aiThinking, handler,
                   debugDrawer, search>>

\* the worker receives {type: "stop"}: abortController?.abort()
StopMessage ==
    /\ calls < MaxMessages
    /\ worker.pc # "loaded"
    /\ worker' = [worker EXCEPT !.aborted = worker.controller \/ @,
                                !.stopped = @ \/ worker.pc = "match"]
    /\ calls' = calls + 1
    /\ last' = [NoCall EXCEPT !.op = "stop"]
    /\ UNCHANGED <<objects, game, copy, currentPlayer, aiMove, aiThinking, handler,
                   debugDrawer, search>>

\* playMatch: a third move was played: onUpdate, then the match yields to
\* the event loop
MatchYields ==
    /\ worker.pc = "match"
    /\ worker.moveNum < MaxYields
    /\ worker' = [Posted(worker, "game_update") EXCEPT !.moveNum = @ + 1]
    /\ last' = [NoCall EXCEPT !.op = "yield"]
    /\ UNCHANGED <<objects, game, copy, currentPlayer, aiMove, calls, aiThinking,
                   handler, debugDrawer, search>>

\* playMatch returns: the last onUpdate, then runEvolution goes on up to its
\* next await or its return
MatchEnds ==
    /\ worker.pc = "match"
    /\ worker' = SimLoop([Posted(worker, "game_update") EXCEPT !.sim = @ + 1])
    /\ last' = [NoCall EXCEPT !.op = "matchEnd"]
    /\ UNCHANGED <<objects, game, copy, currentPlayer, aiMove, calls, aiThinking,
                   handler, debugDrawer, search>>

NextWorker ==
    \/ \E params \in TrainParams, difficulty \in Difficulties :
           StartMessage(params, difficulty)
    \/ StopMessage
    \/ MatchYields
    \/ MatchEnds

SpecWorker == InitWorker /\ [][NextWorker]_vars

\* the event loop of the worker runs the timers and continuations of a match
SpecWorkerFair == SpecWorker /\ WF_vars(MatchYields \/ MatchEnds)

\* the final messages among those posted
Finals(posted) == SelectSeq(posted, LAMBDA type : type \in {"done", "error"})

\* C30: once a stop message was received during a run no further match is
\* started; a start message is answered by one final message, done or error,
\* posted last: none is posted while the run goes on, one when it is over,
\* and every run comes to its end
C30_StopAndOneAnswer ==
    /\ [][worker.stopped => worker'.matches = worker.matches]_vars
    /\ [](Len(Finals(worker.posted)) = IF worker.pc = "finished" THEN 1 ELSE 0)
    /\ [](worker.pc = "finished"
            => worker.posted[Len(worker.posted)] \in {"done", "error"})
    /\ (worker.pc = "match" ~> worker.pc = "finished")

\* a run stopped in the middle of a generation posted its progress and done
\* with matches left unplayed
C30_Witness ==
    /\ worker.pc = "finished" /\ worker.stopped
    /\ worker.posted[Len(worker.posted)] = "done"
    /\ worker.fitnesses < worker.params.populationSize
    /\ worker.matches
           < worker.params.batches * worker.params.populationSize
                 * worker.params.simsPerBatch

====
